---- MODULE Spec2Model ----
(***************************************************************************)
(* Model of the Database-Create task executor                              *)
(* (server/task_executor_database_create.go) running against the store,    *)
(* the migration executor and a concurrent schema sync.                    *)
(*                                                                         *)
(* One RunOnce is split at every call that leaves the executor (driver,    *)
(* migration executor, store), so that a sync pass or another task can     *)
(* interleave between two calls exactly where the Go scheduler allows it.  *)
(*                                                                         *)
(* A second specification, SpecPg, models the schema introspection of one  *)
(* PostgreSQL database (plugin/db/pg/sync.go, SyncDBSchema).               *)
(***************************************************************************)
EXTENDS Integers, Sequences, FiniteSets, TLC

VARIABLES
    payload,        \* task.Payload of every task (fixed once the task exists)
    pc,             \* position of the task's executor inside RunOnce
    completed,      \* DatabaseCreateTaskExecutor.completed (int32)
    ret,            \* (terminated, result, err) of the current RunOnce
    driverOpen,     \* the administrative driver connection of the run is open
    database,       \* the local variable `database` of RunOnce
    migrationID,    \* the local variable `migrationID` of RunOnce
    trace,          \* calls the current RunOnce has issued, in order
    attempts,       \* number of RunOnce invocations started for the task
    databases,      \* store: the database rows
    taskDatabaseID, \* store: task.database_id of every task
    history,        \* migration history, append only
    liveDBs,        \* databases that exist on the live instance
    syncPc,         \* position of the schema sync pass
    syncFound,      \* databases the running sync pass discovered, not yet stored
    syncRuns,       \* number of sync passes started
    syncStored,     \* databases some sync pass has finished storing
    stepErr,        \* the error the failing call of the current RunOnce returned
    migrationInfo,  \* the local variable `mi` of RunOnce
    lineage,        \* outcome of the principal and issue lookups of the run
    flagWrites,     \* stores to `completed` of the task's current executor
    catalog,        \* pg: system catalog of the database on the server
    ddlCount,       \* pg: DDL transactions committed on the database
    pgPc,           \* pg: position inside SyncDBSchema
    databaseName,   \* pg: the argument `databaseName` of the call
    txn,            \* pg: state of the transaction `txn` of the call
    indices,        \* pg: the local variable `indices` of SyncDBSchema
    constraints,    \* pg: the local variable `constraints` of getPgTables
    tables,         \* pg: the local variable `tables` of getPgTables
    views,          \* pg: the local variable `views` of getViews
    cursor,         \* pg: position of the per-object loop that is running
    schema,         \* pg: the local variable `schema` of SyncDBSchema
    pgRet,          \* pg: (schema, err) the call returned
    pgFault,        \* pg: the driver call of the current SyncDBSchema that failed
    pgTrace,        \* pg: driver calls the current SyncDBSchema has issued, in order
    pgRuns,         \* pg: number of SyncDBSchema calls started
    published,      \* pg: the snapshot the caller holds as last known good
    progress,       \* what the GetProgress calls on the task's executor returned, in order
    cancelledAt,    \* position of RunOnce at which its context was cancelled
    seen,           \* what the last IsCompleted call of the task's poller returned
    effective,      \* the version the Migration Executor reports for the task's statement
    reported,       \* pg: the databases the server reports to getDatabases
    excludedDatabaseList, \* pg: the package-level map of that name, as its key set
    instancePc,     \* pg: position of each SyncInstance call
    instanceRet,    \* pg: (meta, err) each SyncInstance call returned
    indexStmt,      \* pg: the argument of getIndexColumnExpressions
    parsed,         \* pg: (cols, err) getIndexColumnExpressions returned
    setting,        \* store: the setting api.SettingEnterpriseLicense
    storeLicense,   \* license: the last StoreLicense call, its patch and its return
    config          \* license: the field `config` of the LicenseService

\* variables of the schema introspection (plugin/db/pg/sync.go)
scanVars == <<tables, views, cursor>>
pgVars == <<catalog, ddlCount, pgPc, databaseName, txn, indices, constraints, scanVars,
            schema, pgRet, pgFault, pgTrace, pgRuns, published>>

\* pollers and the surrounding pipeline of a RunOnce
runVars == <<progress, cancelledAt, seen, effective>>
\* variables of SyncInstance and of the index statement parser
\* variables of the license service (enterprise/service/license.go)
licenseVars == <<setting, storeLicense, config>>

fnVars == <<reported, excludedDatabaseList, instancePc, instanceRet, indexStmt, parsed,
            licenseVars>>

vars == <<payload, pc, completed, ret, driverOpen, database, migrationID, trace,
          attempts, databases, taskDatabaseID, history, liveDBs, syncPc,
          syncFound, syncRuns, syncStored, stepErr, migrationInfo, lineage,
          flagWrites, pgVars, runVars, fnVars>>

execVars == <<pc, completed, flagWrites, ret, stepErr, driverOpen, database,
              migrationID, migrationInfo, lineage, trace, attempts>>
storeVars == <<databases, taskDatabaseID>>
syncVars == <<syncPc, syncFound, syncRuns, syncStored>>

(***************************************************************************)
(* Bounds of the model.                                                    *)
(***************************************************************************)
\* RunOnce invocations the scheduler starts for one task (first run + re-runs)
MaxAttempts == 2
\* sync passes over the instance
MaxSyncs == 1
\* GetProgress calls a poller makes on one executor
MaxPolls == 2

(***************************************************************************)
(* Universe: the create task of one pipeline, its instance, and a second   *)
(* instance and database name so that rows of other pairs exist.           *)
(***************************************************************************)
Tasks == {"t1"}
DatabaseNames == {"db1", "db2"}
TaskInstance == "i1"
OtherInstance == "i2"
DefaultProject == "default"
\* api.SystemBotID
SystemBotID == "system-bot"
\* instance.Environment of the task's instance
TaskEnvironment == "env-of-i1"
\* the project a task's pipeline asks for
TaskProject(t) == "project-of-" \o t
NoLabels == ""
SomeLabels == "[{\"key\":\"bb.tenant\",\"value\":\"a\"}]"
\* statements as character sequences
Statements == { <<>>, <<" ", "\t", "U+3000">>, <<"U+2003", "C", "\n">> }
NilDatabase == [id |-> 0]
NilResult == [nil |-> TRUE]
NilErr == "nil"
NoReturn == [terminated |-> FALSE, result |-> NilResult, err |-> NilErr]
\* `mi` before it is built, and the lookups before they ran
NilInfo == [nil |-> TRUE]
NoLineage == [creator |-> "none", issue |-> "none"]

Unset == "<unset>"
\* what the engine reports for a database it holds (pg/sync.go DatabaseMeta)
EngineCharacterSet == "UTF8"
EngineCollation == "en_US.UTF-8"

\* a payload json.Unmarshal rejects
MalformedPayload(t) ==
    [ wellFormed |-> FALSE, DatabaseName |-> "", ProjectID |-> "", SchemaVersion |-> "",
      CharacterSet |-> "", Collation |-> "", Labels |-> "", Statement |-> <<>> ]

WellFormedPayloads(t) ==
    [ wellFormed    : {TRUE},
      DatabaseName  : DatabaseNames,
      ProjectID     : {TaskProject(t)},
      SchemaVersion : {"v1"},
      CharacterSet  : {"utf8mb4"},
      Collation     : {"utf8mb4_general_ci"},
      Labels        : {NoLabels, SomeLabels},
      Statement     : Statements ]

Payloads(t) == {MalformedPayload(t)} \cup WellFormedPayloads(t)

(***************************************************************************)
(* Pure helpers of RunOnce.                                                *)
(***************************************************************************)
\* unicode.IsSpace, the White_Space property: in Latin-1 \t \n \v \f \r, the
\* blank, NEL and the no-break space, beyond it U+1680, U+2000..U+200A,
\* U+2028, U+2029, U+202F, U+205F and U+3000; a character a string here
\* cannot spell is named by its code point
IsSpace(c) ==
    c \in {" ", "\t", "\n", "U+000B", "\f", "\r", "U+0085", "U+00A0", "U+1680",
           "U+2000", "U+2001", "U+2002", "U+2003", "U+2004", "U+2005", "U+2006",
           "U+2007", "U+2008", "U+2009", "U+200A", "U+2028", "U+2029", "U+202F",
           "U+205F", "U+3000"}

RECURSIVE TrimLeft(_)
TrimLeft(s) == IF s # <<>> /\ IsSpace(Head(s)) THEN TrimLeft(Tail(s)) ELSE s

RECURSIVE TrimRight(_)
TrimRight(s) ==
    IF s # <<>> /\ IsSpace(s[Len(s)]) THEN TrimRight(SubSeq(s, 1, Len(s) - 1)) ELSE s

\* mutant: the statement is tested untrimmed
TrimSpaceNone(s) == s

\* strings.TrimSpace
TrimSpace(s) == TrimRight(TrimLeft(s))

\* IsCompleted tells the scheduler if the task execution has completed.
IsCompleted(t) == completed[t] = 1

\* GetProgress returns the task progress: the zero value.
\* mutant: progress is derived from the completion flag
GetProgressFromFlag(t) == [TotalUnit |-> 1, CompletedUnit |-> completed[t]]

GetProgress(t) == [TotalUnit |-> 0, CompletedUnit |-> 0]

\* NewDatabaseCreateTaskExecutor: the zero value of the struct.
NewDatabaseCreateTaskExecutor == 0

\* mutant: without a resolved creator the record is an unforced migration
MigrationInfoUnforcedWithoutCreator(t, creatorFound, issueFound) ==
    [ ReleaseVersion |-> "server.profile.Version",
      Version        |-> payload[t].SchemaVersion,
      Namespace      |-> payload[t].DatabaseName,
      Database       |-> payload[t].DatabaseName,
      Environment    |-> TaskEnvironment,
      Source         |-> "UI",
      Type           |-> IF creatorFound THEN "BASELINE" ELSE "MIGRATE",
      Description    |-> "Create database",
      CreateDatabase |-> TRUE,
      Force          |-> creatorFound,
      Creator        |-> IF creatorFound THEN "creator-of-" \o t ELSE "",
      IssueID        |-> IF issueFound THEN "issue-of-" \o t ELSE "" ]

\* db.MigrationInfo built by RunOnce; Creator and IssueID stay empty when the
\* principal or the issue cannot be resolved.
MigrationInfoOf(t, creatorFound, issueFound) ==
    [ ReleaseVersion |-> "server.profile.Version",
      Version        |-> payload[t].SchemaVersion,
      Namespace      |-> payload[t].DatabaseName,
      Database       |-> payload[t].DatabaseName,
      Environment    |-> TaskEnvironment,
      Source         |-> "UI",
      Type           |-> "BASELINE",
      Description    |-> "Create database",
      CreateDatabase |-> TRUE,
      Force          |-> TRUE,
      Creator        |-> IF creatorFound THEN "creator-of-" \o t ELSE "",
      IssueID        |-> IF issueFound THEN "issue-of-" \o t ELSE "" ]

\* mutant: the lookup is made on another instance than the task's
DatabaseFindOnOtherInstance(t) == [InstanceID |-> OtherInstance, Name |-> payload[t].DatabaseName]

\* api.DatabaseFind{InstanceID: &task.InstanceID, Name: &payload.DatabaseName}
DatabaseFindOf(t) == [InstanceID |-> TaskInstance, Name |-> payload[t].DatabaseName]

\* the branch `if database == nil`
DatabaseMissing(d) == d = NilDatabase

\* api.DatabaseCreate built when no row was found
DatabaseCreateOf(t) ==
    [ CreatorID     |-> SystemBotID,
      ProjectID     |-> payload[t].ProjectID,
      InstanceID    |-> TaskInstance,
      EnvironmentID |-> TaskEnvironment,
      Name          |-> payload[t].DatabaseName,
      CharacterSet  |-> payload[t].CharacterSet,
      Collation     |-> payload[t].Collation,
      Labels        |-> payload[t].Labels,
      SchemaVersion |-> payload[t].SchemaVersion ]

\* mutant: the patch also overwrites the discovered attributes with the payload's
DatabasePatchFromPayload(t, d) ==
    [ ID            |-> d.id,
      UpdaterID     |-> SystemBotID,
      ProjectID     |-> payload[t].ProjectID,
      CharacterSet  |-> payload[t].CharacterSet,
      Collation     |-> payload[t].Collation,
      Labels        |-> Unset,
      SchemaVersion |-> payload[t].SchemaVersion ]

\* mutant: the patch leaves out the project
DatabasePatchKeepingProject(t, d) ==
    [ ID |-> d.id, UpdaterID |-> SystemBotID, ProjectID |-> Unset, CharacterSet |-> Unset,
      Collation |-> Unset, Labels |-> Unset, SchemaVersion |-> Unset ]

\* api.DatabasePatch{ID: database.ID, UpdaterID: SystemBotID, ProjectID: &payload.ProjectID}
DatabasePatchOf(t, d) ==
    [ ID            |-> d.id,
      UpdaterID     |-> SystemBotID,
      ProjectID     |-> payload[t].ProjectID,
      CharacterSet  |-> Unset,
      Collation     |-> Unset,
      Labels        |-> Unset,
      SchemaVersion |-> Unset ]

\* mutant: the patch carries the task's previous database reference
TaskPatchStale(t, d) ==
    [ID |-> t, UpdaterID |-> SystemBotID, DatabaseID |-> taskDatabaseID[t]]

\* api.TaskPatch{ID: task.ID, UpdaterID: SystemBotID, DatabaseID: &database.ID}
TaskPatchOf(t, d) == [ID |-> t, UpdaterID |-> SystemBotID, DatabaseID |-> d.id]

\* the database names, character by character
Spelling == ("db1" :> <<"d", "b", "1">>) @@ ("db2" :> <<"d", "b", "2">>)
\* characters strconv.IsPrint holds: they stand for themselves in a quoted string
PrintableAtoms ==
    {"a", "b", "c", "d", "e", "f", "g", "h", "i", "j", "k", "l", "m", "n", "o", "p", "q",
     "r", "s", "t", "u", "v", "w", "x", "y", "z", "0", "1", "2", "3", "4", "5", "6", "7",
     "8", "9", "_", "-", ".", "$", "'", " "}
\* strconv.Quote on the other characters: a backslash before the double quote
\* and the backslash, the escapes of the control characters that have one,
\* and \u with four hex digits for a character that does not print
QuoteEscapes ==
    ("\"" :> "\\\"") @@ ("\\" :> "\\\\") @@ ("\n" :> "\\n") @@ ("\t" :> "\\t") @@
    ("\r" :> "\\r") @@ ("\f" :> "\\f") @@ ("U+000B" :> "\\v") @@ ("U+0007" :> "\\a") @@
    ("U+0008" :> "\\b") @@ ("U+0085" :> "\\u0085") @@ ("U+00A0" :> "\\u00a0") @@
    ("U+1680" :> "\\u1680") @@ ("U+2003" :> "\\u2003") @@ ("U+2028" :> "\\u2028") @@
    ("U+2029" :> "\\u2029") @@ ("U+202F" :> "\\u202f") @@ ("U+205F" :> "\\u205f") @@
    ("U+3000" :> "\\u3000")
\* the text of one character inside the quotes
QuoteAtom(c) == IF c \in DOMAIN QuoteEscapes THEN QuoteEscapes[c]
                ELSE [a \in PrintableAtoms |-> a][c]

RECURSIVE QuoteAtoms(_)
QuoteAtoms(chars) ==
    IF chars = <<>> THEN "" ELSE QuoteAtom(Head(chars)) \o QuoteAtoms(Tail(chars))

\* the verb %q on a string: strconv.Quote
Quoted(chars) == "\"" \o QuoteAtoms(chars) \o "\""

\* the api.TaskRunResultPayload of the success path (lines 182-186)
ResultOf(t, mid, mi) ==
    [ Detail      |-> "Created database " \o Quoted(Spelling[payload[t].DatabaseName]),
      MigrationID |-> mid,
      Version     |-> mi.Version ]

(***************************************************************************)
(* The store (a transactional relational store with a unique constraint    *)
(* on (instance, name)), the migration executor and the live engine.       *)
(***************************************************************************)
RowsOf(rows, instanceID, name) ==
    {r \in rows : r.instanceID = instanceID /\ r.name = name}

\* store.GetDatabase: the row matching the find, or nil
GetDatabase(rows, find) ==
    IF RowsOf(rows, find.InstanceID, find.Name) = {}
    THEN NilDatabase
    ELSE CHOOSE r \in RowsOf(rows, find.InstanceID, find.Name) : TRUE

NextDatabaseID(rows) ==
    IF rows = {} THEN 1
    ELSE 1 + (CHOOSE m \in {r.id : r \in rows} : \A r \in rows : r.id <= m)

NewRow(rows, create) ==
    [ id            |-> NextDatabaseID(rows),
      creatorID     |-> create.CreatorID,
      updaterID     |-> create.CreatorID,
      instanceID    |-> create.InstanceID,
      name          |-> create.Name,
      projectID     |-> create.ProjectID,
      characterSet  |-> create.CharacterSet,
      collation     |-> create.Collation,
      labels        |-> create.Labels,
      schemaVersion |-> create.SchemaVersion ]

\* the error of an insert the unique constraint rejects
ErrUniqueConstraint == "CreateDatabase: unique constraint (instance, name)"

\* the unique constraint on (instance, name) rejects the insert
CreateConflicts(rows, create) == RowsOf(rows, create.InstanceID, create.Name) # {}

\* store.CreateDatabase, when the insert is accepted
CreateDatabase(rows, create) == rows \cup {NewRow(rows, create)}

PatchedRow(r, patch) ==
    [ r EXCEPT
        !.updaterID     = patch.UpdaterID,
        !.projectID     = IF patch.ProjectID = Unset THEN @ ELSE patch.ProjectID,
        !.characterSet  = IF patch.CharacterSet = Unset THEN @ ELSE patch.CharacterSet,
        !.collation     = IF patch.Collation = Unset THEN @ ELSE patch.Collation,
        !.labels        = IF patch.Labels = Unset THEN @ ELSE patch.Labels,
        !.schemaVersion = IF patch.SchemaVersion = Unset THEN @ ELSE patch.SchemaVersion ]

\* store.PatchDatabase: the fields the patch sets, on the row with the patch's id
PatchDatabase(rows, patch) ==
    {IF r.id = patch.ID THEN PatchedRow(r, patch) ELSE r : r \in rows}

RowByID(rows, id) == CHOOSE r \in rows : r.id = id

\* setDatabaseLabels: records the labels on the database, as the given updater
SetDatabaseLabels(rows, id, labels, updaterID) ==
    {IF r.id = id THEN [r EXCEPT !.labels = labels, !.updaterID = updaterID] ELSE r :
        r \in rows}

\* what a sync pass stores for a database it discovered: default project
SyncDatabaseCreate(name) ==
    [ CreatorID     |-> SystemBotID,
      ProjectID     |-> DefaultProject,
      InstanceID    |-> TaskInstance,
      EnvironmentID |-> TaskEnvironment,
      Name          |-> name,
      CharacterSet  |-> EngineCharacterSet,
      Collation     |-> EngineCollation,
      Labels        |-> NoLabels,
      SchemaVersion |-> "" ]

\* the error of a failed ExecuteMigration
ErrExecuteMigration == "ExecuteMigration"

\* the record ExecuteMigration appends
MigrationRecord(hist, mi, statement) ==
    [id |-> Len(hist) + 1, info |-> mi, statement |-> statement]

(***************************************************************************)
(* Schema introspection of one PostgreSQL database                         *)
(* (plugin/db/pg/sync.go, SyncDBSchema).  Text is a sequence of atoms: the *)
(* characters ( ) , . and blank are atoms of their own, any other atom is  *)
(* a run of characters that holds none of them.                            *)
(***************************************************************************)
\* SyncDBSchema calls the caller issues
MaxSchemaSyncs == 2
\* DDL transactions that commit on the database while it is being synced
MaxDDL == 1

NilSchema == [nil |-> TRUE]
\* a nil error; errors carry their message, the objects it names, and the
\* errors whose text the message embeds (%s, %v)
NoPgErr == [text |-> "nil", subject |-> <<>>, cause |-> <<>>]
PgErr(text, subject, cause) == [text |-> text, subject |-> subject, cause |-> cause]
\* an error of the server or the connection
DriverErr(call) == PgErr(call, <<>>, <<>>)

RECURSIVE Names(_, _)
\* the text of error e holds the name x
Names(e, x) ==
    \/ \E i \in 1..Len(e.subject) : e.subject[i] = x
    \/ \E i \in 1..Len(e.cause) : Names(e.cause[i], x)

MinOf(S) == CHOOSE x \in S : \A y \in S : x <= y
MaxOf(S) == CHOOSE x \in S : \A y \in S : x >= y
Positions(s, a) == {i \in 1..Len(s) : s[i] = a}
\* strings.Index, counted from 1; 0 when the atom is absent
Index(s, a) == IF Positions(s, a) = {} THEN 0 ELSE MinOf(Positions(s, a))

\* fmt.Sprintf("%s.%s", schemaName, name)
Key(schemaName, name) == schemaName \o <<".">> \o name

\* schemaname NOT IN ('pg_catalog', 'information_schema')
SystemSchemas == { <<"pg_catalog">>, <<"information_schema">> }
NotSystem(schemaName) == schemaName \notin SystemSchemas

(* getIndexColumnExpressions *)
\* `.` of both expressions matches every character but the newline: a match
\* that starts at p lies before the first newline after p
LineEnd(s, p) == MinOf({q \in (p + 1)..Len(s) : s[q] = "\n"} \cup {Len(s) + 1})
\* the ")" a match of `\((.*)\)` that starts at p may end at
Closings(stmt, p) == {q \in Positions(stmt, ")") : p < q /\ q < LineEnd(stmt, p)}
\* the "(" a match may start at
Openings(stmt) == {p \in Positions(stmt, "(") : Closings(stmt, p) # {}}
\* regexp `\((.*)\)` matches: a "(" with a ")" after it on its line
ColumnStmtMatches(stmt) == Openings(stmt) # {}
\* its submatch: leftmost and greedy, from the first such "(" to the last ")"
\* of that line
ColumnStmt(stmt) ==
    LET p == MinOf(Openings(stmt)) IN
    SubSeq(stmt, p + 1, MaxOf(Closings(stmt, p)) - 1)

\* the "))" a match of `\(\(.*\)\)` that starts at p may end at (first ")")
DoubleClosings(s, p) ==
    {q \in (p + 2)..(Len(s) - 1) : s[q] = ")" /\ s[q + 1] = ")" /\ q < LineEnd(s, p)}
\* the "((" a match may start at
DoubleOpenings(s) ==
    {p \in 1..(Len(s) - 3) : s[p] = "(" /\ s[p + 1] = "(" /\ DoubleClosings(s, p) # {}}
\* regexp `\(\(.*\)\)`, FindString: the leftmost match, greedy up to the last
\* "))" of its line; the empty text when no "((" has a "))" after it on its
\* line.  On text that starts with "((" the match starts there unless the
\* first line holds no "))"
DoubleParenToken(s) ==
    IF DoubleOpenings(s) = {} THEN <<>>
    ELSE LET p == MinOf(DoubleOpenings(s)) IN
         SubSeq(s, p, MaxOf(DoubleClosings(s, p)) + 1)

\* mutant: every token ends at the first comma, "((" or not
NextTokenSplittingAtComma(columnStmt) ==
    LET i == Index(columnStmt, ",") IN
    IF i = 0 THEN columnStmt ELSE SubSeq(columnStmt, 1, i - 1)

NextToken(columnStmt) ==
    IF Len(columnStmt) >= 2 /\ columnStmt[1] = "(" /\ columnStmt[2] = "("
    THEN DoubleParenToken(columnStmt)
    ELSE LET i == Index(columnStmt, ",") IN
         IF i = 0 THEN columnStmt ELSE SubSeq(columnStmt, 1, i - 1)

\* mutant: the token is appended but not cut off the column text
LoopBodyKeepingToken(columnStmt) ==
    LET token == NextToken(columnStmt) IN
    IF Len(token) = 0
    THEN [ok |-> FALSE, col |-> <<>>, rest |-> columnStmt]
    ELSE LET stripped == TrimSpace(columnStmt)
             rest == IF Len(stripped) > 0 /\ stripped[1] = ","
                     THEN Tail(stripped) ELSE stripped
         IN [ok |-> TRUE, col |-> TrimSpace(token), rest |-> TrimSpace(rest)]

\* one iteration of the tokenizing loop on a non-empty column text: the column
\* it appends and the text it leaves, or the error of an empty token.
\* columnStmt[len(token):] cuts as much text off the front as the token is
\* long, whether the token was found at the front or further on
LoopBody(columnStmt) ==
    LET token == NextToken(columnStmt) IN
    IF Len(token) = 0
    THEN [ok |-> FALSE, col |-> <<>>, rest |-> columnStmt]
    ELSE LET stripped == TrimSpace(SubSeq(columnStmt, Len(token) + 1, Len(columnStmt)))
             rest == IF Len(stripped) > 0 /\ stripped[1] = ","
                     THEN Tail(stripped) ELSE stripped
         IN [ok |-> TRUE, col |-> TrimSpace(token), rest |-> TrimSpace(rest)]

RECURSIVE Tokenize(_, _)
\* the tokenizing loop: cols so far, and the text still to split
Tokenize(columnStmt, cols) ==
    IF Len(columnStmt) = 0
    THEN [cols |-> cols, ok |-> TRUE]
    ELSE LET body == LoopBody(columnStmt) IN
         IF ~body.ok
         THEN [cols |-> <<>>, ok |-> FALSE]
         ELSE Tokenize(body.rest, Append(cols, body.col))

getIndexColumnExpressions(stmt) ==
    IF ~ColumnStmtMatches(stmt)
    THEN [cols |-> <<>>, ok |-> FALSE]
    ELSE Tokenize(ColumnStmt(stmt), <<>>)

(* getIndices *)
\* rows of pg_indexes outside the system schemas
IndexRows(cat) == SelectSeq(cat.indexes, LAMBDA r : NotSystem(r.schemaName))
\* rows whose statement getIndexColumnExpressions rejects
BadIndexRows(rows) ==
    {i \in 1..Len(rows) : ~getIndexColumnExpressions(rows[i].statement).ok}
\* lines 575-589: the indexSchema values the scan of pg_indexes appends
\* (methodType and unique, both read off the statement, are left out)
ScannedIndices(rows) ==
    [i \in 1..Len(rows) |->
        [ schemaName        |-> rows[i].schemaName,
          tableName         |-> rows[i].tableName,
          name              |-> rows[i].name,
          columnExpressions |-> getIndexColumnExpressions(rows[i].statement).cols,
          comment           |-> "",
          primary           |-> FALSE ]]
\* the rows a per-object statement finds for the object x, in the catalog as
\* committed when the statement runs
Described(rows, x) ==
    SelectSeq(rows, LAMBDA r : r.schemaName = x.schemaName /\ r.name = x.name)
\* '"schema"."name"'::regclass resolves
Exists(rows, x) == Described(rows, x) # <<>>
\* lines 629-645, on an index that exists
getIndex(cat, idx) == [idx EXCEPT !.comment = Described(cat.indexes, idx)[1].comment]
\* lines 606-626: count(*) of the primary key constraints of that name
getPrimary(cat, idx) ==
    [idx EXCEPT !.primary = Exists(cat.indexes, idx) /\ Described(cat.indexes, idx)[1].primary]

(* getTableConstraints *)
ConstraintRows(cat) == SelectSeq(cat.constraints, LAMBDA r : NotSystem(r.schemaName))
\* constraint.tableName[1+strings.Index(constraint.tableName, "."):]
StripQualifier(tableName) ==
    IF Index(tableName, ".") # 0
    THEN SubSeq(tableName, Index(tableName, ".") + 1, Len(tableName))
    ELSE tableName
getTableConstraints(rows) ==
    [i \in 1..Len(rows) |->
        [ schemaName |-> rows[i].schemaName,
          tableName  |-> StripQualifier(rows[i].conrelid),
          name       |-> rows[i].name,
          constraint |-> rows[i].constraint ]]
\* ret[key]
ConstraintsOf(cs, key) ==
    SelectSeq(cs, LAMBDA c : Key(c.schemaName, c.tableName) = key)

(* getPgTables *)
TableRows(cat) == SelectSeq(cat.tables, LAMBDA r : NotSystem(r.schemaName))
\* lines 317-331: the tableSchema values the scan of pg_tables appends
ScannedTables(rows) ==
    [i \in 1..Len(rows) |->
        [ schemaName  |-> rows[i].schemaName,
          name        |-> rows[i].name,
          rowCount    |-> 0,
          comment     |-> "",
          columns     |-> <<>>,
          constraints |-> <<>> ]]
\* lines 353-366: SELECT COUNT(1) on a table that exists
getTableCount(cat, tbl) == [tbl EXCEPT !.rowCount = Described(cat.tables, tbl)[1].rowCount]
\* lines 368-381: obj_description of a table that exists
getTableComment(cat, tbl) == [tbl EXCEPT !.comment = Described(cat.tables, tbl)[1].comment]
\* lines 384-443: the columns information_schema lists for the table
getTableColumns(cat, tbl) ==
    IF Exists(cat.tables, tbl) THEN Described(cat.tables, tbl)[1].columns ELSE <<>>

(* SyncDBSchema, lines 189-224: one db.Table per tableSchema *)
RECURSIVE Flatten(_)
Flatten(ss) == IF ss = <<>> THEN <<>> ELSE Head(ss) \o Flatten(Tail(ss))

\* indicesMap[key]
IndicesOf(idxs, key) == SelectSeq(idxs, LAMBDA x : Key(x.schemaName, x.tableName) = key)
\* one db.Index per column expression of the index
IndexEntries(idx) ==
    [i \in 1..Len(idx.columnExpressions) |->
        [ Name       |-> idx.name,
          Expression |-> idx.columnExpressions[i],
          Position   |-> i,
          Primary    |-> idx.primary,
          Comment    |-> idx.comment ]]
IndexListOf(idxs, key) ==
    LET sel == IndicesOf(idxs, key) IN
    Flatten([k \in 1..Len(sel) |-> IndexEntries(sel[k])])
TableListOf(tbls, idxs) ==
    [i \in 1..Len(tbls) |->
        [ Name       |-> Key(tbls[i].schemaName, tbls[i].name),
          Type       |-> "BASE TABLE",
          Comment    |-> tbls[i].comment,
          RowCount   |-> tbls[i].rowCount,
          ColumnList |-> tbls[i].columns,
          IndexList  |-> IndexListOf(idxs, Key(tbls[i].schemaName, tbls[i].name)) ]]

(* getViews *)
ViewRows(cat) == SelectSeq(cat.views, LAMBDA r : NotSystem(r.schemaName))
\* rows whose definition is NULL (`!def.Valid`)
NullViewRows(rows) == {i \in 1..Len(rows) : ~rows[i].definition.Valid}
ErrEmptyDefinition(view) ==
    PgErr("has empty definition", <<view.schemaName, view.name>>, <<>>)
\* lines 486-499: the viewSchema values the scan of pg_views appends
ScannedViews(rows) ==
    [i \in 1..Len(rows) |->
        [ schemaName |-> rows[i].schemaName,
          name       |-> rows[i].name,
          definition |-> rows[i].definition.String,
          comment    |-> "" ]]
\* lines 513-529, on a view that exists
getView(cat, view) == [view EXCEPT !.comment = Described(cat.views, view)[1].comment]
\* lines 230-239: one db.View per viewSchema (CreatedTs, the clock, is left out)
ViewListOf(vs) ==
    [i \in 1..Len(vs) |->
        [ Name       |-> Key(vs[i].schemaName, vs[i].name),
          Definition |-> vs[i].definition,
          Comment    |-> vs[i].comment ]]

(* getExtensions: n.nspname != 'pg_catalog' *)
getExtensions(cat) == SelectSeq(cat.extensions, LAMBDA r : r.Schema # <<"pg_catalog">>)

(* getDatabases: what the server lists *)
ServerDatabases ==
    << [name |-> "db1", encoding |-> EngineCharacterSet, collate |-> EngineCollation],
       [name |-> "postgres", encoding |-> EngineCharacterSet, collate |-> "C"] >>
\* `found`
Found(name) == \E i \in 1..Len(ServerDatabases) : ServerDatabases[i].name = name
FoundDatabase(name) ==
    ServerDatabases[MinOf({i \in 1..Len(ServerDatabases) : ServerDatabases[i].name = name})]
\* names SyncDBSchema is called with
SyncNames == {"db1", "dropped"}

(* SyncInstance *)
\* the keys of excludedDatabaseList as the package declares it
ExcludedDatabases == {"bytebase", "rdsadmin", "cloudsql", "cloudsqladmin"}
\* the keys of systemDatabases, the engine's template databases
systemDatabases == {"template0", "template1"}
NilMeta == [nil |-> TRUE]
NoInstanceReturn == [meta |-> NilMeta, err |-> NoPgErr]
\* SyncInstance calls made in one process, each on its own goroutine
InstanceCalls == {"call1", "call2"}
\* strings.ToLower on the names of the model
ToLower(name) == IF name = "Bytebase" THEN "bytebase" ELSE name
\* mutant: the lookup folds case
DatabaseListFoldingCase(dbs, excluded) ==
    LET kept == SelectSeq(dbs, LAMBDA d : ToLower(d.name) \notin excluded) IN
    [i \in 1..Len(kept) |->
        [ Name         |-> kept[i].name,
          CharacterSet |-> kept[i].encoding,
          Collation    |-> kept[i].collate ]]

\* the loop over `databases`: a row is skipped when its name is a key of the map
DatabaseListOf(dbs, excluded) ==
    LET kept == SelectSeq(dbs, LAMBDA d : d.name \notin excluded) IN
    [i \in 1..Len(kept) |->
        [ Name         |-> kept[i].name,
          CharacterSet |-> kept[i].encoding,
          Collation    |-> kept[i].collate ]]
\* getVersion and getUserList of the one server the model talks to
ServerVersion == "14.2"
ServerUsers == << [Name |-> "postgres", Grant |-> "SUPERUSER"] >>
InstanceMetaOf(dbs, excluded) ==
    [ Version      |-> ServerVersion,
      UserList     |-> ServerUsers,
      DatabaseList |-> DatabaseListOf(dbs, excluded) ]

\* rows of pg_database the server may report, and the lists drawn from them
MaxReported == 3
ReportedNames == {"db1", "bytebase", "Bytebase", "template0", "rdsadmin"}
ReportedRow(name) ==
    [ name     |-> name,
      encoding |-> IF name = "template0" THEN "SQL_ASCII" ELSE EngineCharacterSet,
      collate  |-> IF name = "db1" THEN EngineCollation ELSE "C" ]
ReportedLists ==
    UNION { [1..n -> {ReportedRow(name) : name \in ReportedNames}] : n \in 0..MaxReported }

(* index statements getIndexColumnExpressions is applied to *)
\* atoms of the column text drawn exhaustively, and terms of the lists drawn
MaxColumnAtoms == 4
MaxTerms == 3
ColumnAtoms == {"(", ")", ",", " ", "a", "\n"}
ColumnTexts == UNION { [1..n -> ColumnAtoms] : n \in 0..MaxColumnAtoms }
\* ((a)) and ((a, b)): expressions as pg_get_indexdef prints them
DoubleParenTerms ==
    { <<"(", "(", "a", ")", ")">>, <<"(", "(", "a", ",", " ", "b", ")", ")">> }
PlainTerms == { <<"a">>, <<"b">> }
Terms == PlainTerms \cup DoubleParenTerms
TermLists == UNION { [1..n -> Terms] : n \in 1..MaxTerms }
RECURSIVE JoinTerms(_)
\* the terms separated by ", "
JoinTerms(terms) ==
    IF Len(terms) = 1 THEN terms[1]
    ELSE terms[1] \o <<",", " ">> \o JoinTerms(Tail(terms))
\* CREATE INDEX i ON t USING btree (<column text>)
IndexHead ==
    <<"CREATE", " ", "INDEX", " ", "i", " ", "ON", " ", "t", " ", "USING", " ", "btree", " ">>
IndexDefinition(columnText) == IndexHead \o <<"(">> \o columnText \o <<")">>
StatementOf(terms) == IndexDefinition(JoinTerms(terms))
\* the predicate of a partial index as pg_get_indexdef prints it: WHERE (c > 0)
WherePredicate == <<"WHERE", " ", "(", "c", " ", ">", " ", "0", ")">>
\* CREATE INDEX i ON t USING btree (<terms>) WHERE (c > 0)
PartialStatementOf(terms) == StatementOf(terms) \o <<" ">> \o WherePredicate
\* column texts with an expression that runs over a line break
BrokenLineTexts ==
    { <<"(", "(", "a", ")", ")", ",", "\n", "(", "(", "b", ")", ")">>,
      <<"(", "(", "a", "\n", ")", ")">>,
      <<"(", "(", "a", "\n", "(", "(", "b", ")", ")">>,
      <<"a", ")", "\n", ")">> }
IndexStatements ==
    {IndexDefinition(text) : text \in ColumnTexts \cup BrokenLineTexts}
        \cup {StatementOf(terms) : terms \in TermLists}
        \cup {PartialStatementOf(terms) : terms \in TermLists}
        \cup { IndexHead }

\* what getIndexColumnExpressions has not been asked yet
NotParsed ==
    [ cols |-> <<>>, ok |-> FALSE, called |-> FALSE,
      looping |-> FALSE, rest |-> <<>>, iterations |-> 0 ]

(***************************************************************************)
(* License service (enterprise/service/license.go).  A license is a signed *)
(* token; the model keeps of it what parseLicense and parseClaims look at. *)
(***************************************************************************)
\* config.Config of the service
ConfigVersion == "v1"
ConfigIssuer == "bytebase"
ConfigAudience == "bb.license.verifier"
MinimumInstance == 5
\* number of StoreLicense calls a behaviour makes
MaxStores == 2
\* number of defects a token given to StoreLicense has
MaxDefects == 1

\* the license string ""
EmptyLicense == [empty |-> TRUE]
\* a license string that is not a token
MalformedLicense == [malformed |-> TRUE]
\* the plan names a token may carry
PlanNames == {"TEAM", "ENTERPRISE", "FREE", "PRO"}
\* the signing methods of type *jwt.SigningMethodRSA
SigningMethodRSA == {"RS256", "RS384", "RS512"}
\* config.Config of a service: the public key is PEM text of an RSA key, or
\* text jwt.ParseRSAPublicKeyFromPEM cannot read
Configs == [PublicKey : {"PEM", "not PEM"}]
\* tokens: header (alg, kid), signature check against config.PublicKey
\* (signed), registered claims (exp, iat and nbf, each of which a token may
\* lack, iss, aud), the service's claims (instanceCount, plan), and the outcome of
\* License.Valid (sound)
SignedTexts ==
    [ alg           : {"RS256", "RS384", "HS256"},
      kid           : {ConfigVersion, "v0"},
      signed        : BOOLEAN,
      exp           : {"future", "past", "absent"},
      iat           : {"past", "absent"},
      nbf           : {"absent", "future"},
      iss           : {ConfigIssuer, "someone"},
      aud           : {ConfigAudience, "anyone"},
      instanceCount : {MinimumInstance - 1, MinimumInstance},
      plan          : PlanNames,
      sound         : BOOLEAN ]
\* the parts of a token that differ from those of a license in good order:
\* those parseLicense and parseClaims return an error for, and a missing exp
\* or iat
Defects(token) ==
    {d \in {"alg", "kid", "signed", "exp", "iat", "nbf", "iss", "aud", "instanceCount",
            "plan", "sound"} :
        \/ d = "alg" /\ token.alg \notin SigningMethodRSA
        \/ d = "kid" /\ token.kid # ConfigVersion
        \/ d = "signed" /\ ~token.signed
        \/ d = "exp" /\ token.exp # "future"
        \/ d = "iat" /\ token.iat # "past"
        \/ d = "nbf" /\ token.nbf # "absent"
        \/ d = "iss" /\ token.iss # ConfigIssuer
        \/ d = "aud" /\ token.aud # ConfigAudience
        \/ d = "instanceCount" /\ token.instanceCount < MinimumInstance
        \/ d = "plan" /\ token.plan = "PRO"
        \/ d = "sound" /\ ~token.sound}
\* the tokens StoreLicense is given: valid ones, and ones with few defects
Tokens == {token \in SignedTexts : Cardinality(Defects(token)) <= MaxDefects}
Licenses == Tokens \cup {EmptyLicense, MalformedLicense}
\* the principals that patch the subscription
Updaters == {"dba"}
SubscriptionPatches == [UpdaterID : Updaters, License : Licenses]

NilLicense == [nil |-> TRUE]
NoPanic == "none"
LicenseOK(license) == [ok |-> TRUE, err |-> "nil", panic |-> NoPanic, license |-> license]
LicenseErr(text) == [ok |-> FALSE, err |-> text, panic |-> NoPanic, license |-> NilLicense]
\* the call does not return: a run-time panic unwinds the goroutine
LicensePanic(text) == [ok |-> FALSE, err |-> "nil", panic |-> text, license |-> NilLicense]

\* lines 166-177
convertPlanType(candidate) ==
    IF candidate \in {"TEAM", "ENTERPRISE", "FREE"}
    THEN [plan |-> candidate, ok |-> TRUE]
    ELSE [plan |-> "FREE", ok |-> FALSE]

\* jwt.RegisteredClaims.Valid: exp, iat and nbf are tested in this order, each
\* when the token has it, and the error reads as the last test that failed
ClaimsValid(claims) ==
    IF claims.nbf = "future" THEN "token is not valid yet"
    ELSE IF claims.iat = "future" THEN "token used before issued"
    ELSE IF claims.exp = "past" THEN "token is expired"
    ELSE "nil"

\* lines 98-137; claims.ExpiresAt and claims.IssuedAt are nil pointers when the
\* token lacks exp or iat, and lines 127 and 128 dereference them
parseClaims(claims) ==
    IF ClaimsValid(claims) # "nil"
    THEN LicenseErr("Invalid: " \o ClaimsValid(claims))
    ELSE IF claims.iss # ConfigIssuer
    THEN LicenseErr("Invalid: iss is not valid")
    ELSE IF claims.aud # ConfigAudience
    THEN LicenseErr("Invalid: aud is not valid")
    ELSE IF claims.instanceCount < MinimumInstance
    THEN LicenseErr("Invalid: license instance count is not valid")
    ELSE IF ~convertPlanType(claims.plan).ok
    THEN LicenseErr("Invalid: plan type is not valid")
    ELSE IF claims.exp = "absent" \/ claims.iat = "absent"
    THEN LicensePanic("nil pointer dereference")
    ELSE IF ~claims.sound
    THEN LicenseErr("Invalid: license is not valid")
    ELSE LicenseOK([ InstanceCount |-> claims.instanceCount,
                     Plan          |-> convertPlanType(claims.plan).plan ])

\* lines 68-95: jwt.ParseWithClaims with the key function (lines 70-86), which
\* validates the claims and verifies the signature, then parseClaims
parseLicense(license) ==
    IF "alg" \notin DOMAIN license
    THEN LicenseErr("Invalid: token is malformed")
    ELSE IF license.alg \notin SigningMethodRSA
    THEN LicenseErr("Invalid: unexpected signing method")
    ELSE IF license.kid # ConfigVersion
    THEN LicenseErr("Invalid: version is not valid")
    ELSE IF config.PublicKey # "PEM"
    THEN LicenseErr("Invalid: invalid key")
    ELSE IF ~license.signed
    THEN LicenseErr("Invalid: verification error")
    ELSE IF ClaimsValid(license) # "nil"
    THEN LicenseErr("Invalid: " \o ClaimsValid(license))
    ELSE parseClaims(license)

\* the license setting before any license is stored
NoSetting == [Value |-> EmptyLicense, UpdaterID |-> "none"]
\* a license stored earlier
OldLicense ==
    [ alg |-> "RS256", kid |-> ConfigVersion, signed |-> TRUE, exp |-> "future",
      iat |-> "past", nbf |-> "absent", iss |-> ConfigIssuer, aud |-> ConfigAudience, instanceCount |-> MinimumInstance,
      plan |-> "TEAM", sound |-> TRUE ]
OldSetting == [Value |-> OldLicense, UpdaterID |-> "owner"]
NilPatch == [nil |-> TRUE]
NoStoreLicense ==
    [patch |-> NilPatch, err |-> "nil", panic |-> NoPanic, patched |-> FALSE, calls |-> 0]
\* the configuration the release ships
ReleaseConfig == [PublicKey |-> "PEM"]

(***************************************************************************)
(* Catalogs the model starts from.                                         *)
(***************************************************************************)
NullString == [Valid |-> FALSE, String |-> ""]
ValidString(str) == [Valid |-> TRUE, String |-> str]

TableT1 == [ schemaName |-> <<"public">>, name |-> <<"t1">>, rowCount |-> 3,
             comment |-> "orders", columns |-> <<"a", "b">> ]
TableT2 == [ schemaName |-> <<"s1">>, name |-> <<"t2">>, rowCount |-> 0,
             comment |-> "", columns |-> <<"c">> ]
SystemTable == [ schemaName |-> <<"pg_catalog">>, name |-> <<"pg_class">>, rowCount |-> 9,
                 comment |-> "", columns |-> <<"oid">> ]

IndexRow(schemaName, tableName, name, statement, primary) ==
    [ schemaName |-> schemaName, tableName |-> tableName, name |-> name,
      statement |-> statement, comment |-> "", primary |-> primary ]
\* CREATE UNIQUE INDEX t1_pkey ON public.t1 USING btree (a)
IndexT1Pkey ==
    IndexRow(<<"public">>, <<"t1">>, <<"t1_pkey">>,
             <<"CREATE UNIQUE INDEX t1_pkey ON public", ".", "t1 USING btree", " ",
               "(", "a", ")">>, TRUE)
\* CREATE INDEX t1_ab ON public.t1 USING btree (a, b)
IndexT1Plain ==
    IndexRow(<<"public">>, <<"t1">>, <<"t1_ab">>,
             <<"CREATE INDEX t1_ab ON public", ".", "t1 USING btree", " ",
               "(", "a", ",", " ", "b", ")">>, FALSE)
\* CREATE INDEX t1_expr ON public.t1 USING btree (((a + b)), b)
IndexT1Expr ==
    IndexRow(<<"public">>, <<"t1">>, <<"t1_expr">>,
             <<"CREATE INDEX t1_expr ON public", ".", "t1 USING btree", " ",
               "(", "(", "(", "a", " ", "+", " ", "b", ")", ")", ",", " ", "b", ")">>, FALSE)
\* a definition without a column list
IndexT1Broken ==
    IndexRow(<<"public">>, <<"t1">>, <<"t1_bad">>,
             <<"CREATE INDEX t1_bad ON public", ".", "t1">>, FALSE)
\* CREATE INDEX t2_c ON s1.t2 USING btree (c)
IndexT2 ==
    IndexRow(<<"s1">>, <<"t2">>, <<"t2_c">>,
             <<"CREATE INDEX t2_c ON s1", ".", "t2 USING btree", " ", "(", "c", ")">>, FALSE)

\* conrelid::regclass prints the table of a schema on the search path bare
ConstraintT1 == [ schemaName |-> <<"public">>, conrelid |-> <<"t1">>,
                  name |-> <<"t1_pkey">>, constraint |-> "PRIMARY KEY (a)" ]
\* and any other table qualified
ConstraintT2 == [ schemaName |-> <<"s1">>, conrelid |-> <<"s1", ".", "t2">>,
                  name |-> <<"t2_check">>, constraint |-> "CHECK ((c > 0))" ]

ViewV1 == [ schemaName |-> <<"public">>, name |-> <<"v1">>,
            definition |-> ValidString("SELECT a FROM t1"), comment |-> "" ]
\* a view the connecting role may not read: its definition is NULL
ViewV2 == [ schemaName |-> <<"s1">>, name |-> <<"v2">>,
            definition |-> NullString, comment |-> "" ]
SystemView == [ schemaName |-> <<"pg_catalog">>, name |-> <<"pg_views">>,
                definition |-> NullString, comment |-> "" ]

ExtensionPlpgsql == [ Name |-> "plpgsql", Version |-> "1.0", Schema |-> <<"pg_catalog">>,
                      Description |-> "PL/pgSQL procedural language" ]
ExtensionCrypto == [ Name |-> "pgcrypto", Version |-> "1.3", Schema |-> <<"public">>,
                     Description |-> "cryptographic functions" ]

IndexCatalogs ==
    { <<IndexT1Pkey, IndexT1Plain>>, <<IndexT1Pkey, IndexT1Expr>>, <<IndexT1Broken>> }
ViewCatalogs ==
    { <<>>, <<SystemView, ViewV1>>, <<ViewV1, ViewV2>> }
Catalogs ==
    [ tables      : { <<SystemTable, TableT1>> },
      indexes     : IndexCatalogs,
      constraints : { <<ConstraintT1>> },
      views       : ViewCatalogs,
      extensions  : { <<ExtensionPlpgsql, ExtensionCrypto>> } ]
\* CREATE TABLE s1.t2 (c int CHECK (c > 0)); CREATE INDEX t2_c ON s1.t2 (c); COMMIT
CreateTableT2(cat) ==
    [cat EXCEPT !.tables = Append(@, TableT2),
                !.indexes = Append(@, IndexT2),
                !.constraints = Append(@, ConstraintT2)]
\* DROP INDEX public.<name>; COMMIT
DropIndex(cat, name) ==
    [cat EXCEPT !.indexes = SelectSeq(@, LAMBDA r : r.name # name)]
\* the indexes of the catalog that back no constraint
DroppableIndexes(cat) ==
    {cat.indexes[i].name : i \in {j \in 1..Len(cat.indexes) : ~cat.indexes[j].primary}}

\* a snapshot an earlier sync published
PriorSnapshot ==
    [ Name |-> "db1", CharacterSet |-> EngineCharacterSet, Collation |-> EngineCollation,
      TableList |-> <<>>, ViewList |-> <<>>, ExtensionList |-> <<>> ]

(***************************************************************************)
(* Initial state: the task exists, no executor has run, the store holds a  *)
(* database of the same name on another instance, and the instance holds   *)
(* a database no sync has stored yet.                                      *)
(***************************************************************************)
InitialRows ==
    { [ id |-> 1, creatorID |-> SystemBotID, updaterID |-> "a-user",
        instanceID |-> OtherInstance, name |-> "db1",
        projectID |-> DefaultProject, characterSet |-> EngineCharacterSet,
        collation |-> EngineCollation, labels |-> NoLabels, schemaVersion |-> "" ] }

\* no executor has run
ExecutorInit ==
    /\ pc = [t \in Tasks |-> "pending"]
    /\ completed = [t \in Tasks |-> NewDatabaseCreateTaskExecutor]
    /\ ret = [t \in Tasks |-> NoReturn]
    /\ driverOpen = [t \in Tasks |-> FALSE]
    /\ database = [t \in Tasks |-> NilDatabase]
    /\ migrationID = [t \in Tasks |-> 0]
    /\ trace = [t \in Tasks |-> <<>>]
    /\ attempts = [t \in Tasks |-> 0]
    /\ databases = InitialRows
    /\ taskDatabaseID = [t \in Tasks |-> 0]
    /\ history = <<>>
    /\ liveDBs = {"db2"}
    /\ syncPc = "idle"
    /\ syncFound = {}
    /\ syncRuns = 0
    /\ syncStored = {}
    /\ stepErr = [t \in Tasks |-> NilErr]
    /\ migrationInfo = [t \in Tasks |-> NilInfo]
    /\ lineage = [t \in Tasks |-> NoLineage]
    /\ flagWrites = [t \in Tasks |-> 0]

\* no poller has called, the context is live, and the Migration Executor
\* applies the version label it is asked for
RunIdle ==
    /\ progress = [t \in Tasks |-> <<>>]
    /\ cancelledAt = [t \in Tasks |-> "none"]
    /\ seen = [t \in Tasks |-> FALSE]
    /\ effective = [t \in Tasks |-> payload[t].SchemaVersion]

\* no SyncInstance call has been made: the map is as the package declares it
InstanceIdle ==
    /\ excludedDatabaseList = ExcludedDatabases
    /\ instancePc = [c \in InstanceCalls |-> "idle"]
    /\ instanceRet = [c \in InstanceCalls |-> NoInstanceReturn]

\* no SyncInstance call and no getIndexColumnExpressions call has been made
\* no license is stored and StoreLicense has not been called
LicenseIdle ==
    /\ config = ReleaseConfig
    /\ setting = NoSetting
    /\ storeLicense = NoStoreLicense

FnIdle ==
    /\ reported = <<>>
    /\ InstanceIdle
    /\ indexStmt = <<>>
    /\ parsed = NotParsed
    /\ LicenseIdle

\* no SyncDBSchema call has been made
PgIdle ==
    /\ ddlCount = 0
    /\ pgPc = "idle"
    /\ databaseName = ""
    /\ txn = "nil"
    /\ indices = <<>>
    /\ constraints = <<>>
    /\ tables = <<>>
    /\ views = <<>>
    /\ cursor = 0
    /\ schema = NilSchema
    /\ pgRet = [schema |-> NilSchema, err |-> NoPgErr]
    /\ pgFault = "none"
    /\ pgTrace = <<>>
    /\ pgRuns = 0

Init ==
    /\ payload \in {f \in [Tasks -> UNION {Payloads(t) : t \in Tasks}] :
                        \A t \in Tasks : f[t] \in Payloads(t)}
    /\ ExecutorInit
    /\ catalog = CHOOSE c \in Catalogs : c.views = <<>> /\ c.indexes = <<IndexT1Pkey, IndexT1Plain>>
    /\ published = NilSchema
    /\ PgIdle
    /\ RunIdle
    /\ FnIdle

(***************************************************************************)
(* RunOnce, one action per call that leaves the executor.                  *)
(***************************************************************************)
\* mutant: the error return leaves without running the deferred driver.Close
ReturnErrLeavingDriver(t, e) ==
    /\ ret' = [ret EXCEPT ![t] = [terminated |-> TRUE, result |-> NilResult, err |-> e]]
    /\ pc' = [pc EXCEPT ![t] = "complete"]

\* mutant: an error return asks the scheduler to call again
ReturnErrNotTerminated(t, e) ==
    /\ ret' = [ret EXCEPT ![t] = [terminated |-> FALSE, result |-> NilResult, err |-> e]]
    /\ pc' = [pc EXCEPT ![t] = IF driverOpen[t] THEN "close" ELSE "complete"]

\* mutant: the success return hands back no result
ReturnOKWithoutResult(t, r) ==
    /\ ret' = [ret EXCEPT ![t] = [terminated |-> TRUE, result |-> NilResult, err |-> NilErr]]
    /\ pc' = [pc EXCEPT ![t] = "close"]
    /\ UNCHANGED stepErr

\* `return true, nil, err`: the deferred calls run next
ReturnErr(t, e) ==
    /\ ret' = [ret EXCEPT ![t] = [terminated |-> TRUE, result |-> NilResult, err |-> e]]
    /\ pc' = [pc EXCEPT ![t] = IF driverOpen[t] THEN "close" ELSE "complete"]

\* `return true, &api.TaskRunResultPayload{...}, nil`
ReturnOK(t, r) ==
    /\ ret' = [ret EXCEPT ![t] = [terminated |-> TRUE, result |-> r, err |-> NilErr]]
    /\ pc' = [pc EXCEPT ![t] = "close"]
    /\ UNCHANGED stepErr

\* the run of t is unwinding from the panic of line 86, or has done so
Panicking(t) == lineage[t].creator = "nil"
\* where RunOnce is once its deferred calls have run: it has returned, or the
\* panic goes on into its caller
Left(t) == IF Panicking(t) THEN "panicked" ELSE "done"

\* the call `c` of the run failed (c = NilErr: the return is not due to a failed call)
Failed(t, c) == stepErr' = [stepErr EXCEPT ![t] = c]

Call(t, ops) == trace' = [trace EXCEPT ![t] = @ \o ops]

\* whether a call that is handed ctx succeeds: under a cancelled context the
\* driver and the store return the context's error
Outcomes(t) == IF cancelledAt[t] = "none" THEN BOOLEAN ELSE {FALSE}
\* likewise for a lookup that may also find nothing
Lookups(t, outcomes) == IF cancelledAt[t] = "none" THEN outcomes ELSE {"error"}

\* RunOnce up to and including getAdminDatabaseDriver
Begin(t) ==
    /\ pc[t] = "pending"
    /\ attempts[t] < MaxAttempts
    /\ attempts' = [attempts EXCEPT ![t] = @ + 1]
    /\ UNCHANGED <<payload, pgVars, fnVars, runVars, completed, flagWrites, database,
                   migrationID, migrationInfo, lineage, storeVars, history, liveDBs,
                   syncVars>>
    /\ IF ~payload[t].wellFormed
       THEN /\ Failed(t, "json.Unmarshal")
            /\ ReturnErr(t, "invalid create database payload")
            /\ UNCHANGED <<driverOpen, trace>>
       ELSE IF TrimSpace(payload[t].Statement) = <<>>
       THEN /\ Failed(t, NilErr)
            /\ ReturnErr(t, "empty create database statement")
            /\ UNCHANGED <<driverOpen, trace>>
       ELSE /\ Call(t, <<"getAdminDatabaseDriver">>)
            /\ \E ok \in BOOLEAN :
                 IF ok
                 THEN /\ driverOpen' = [driverOpen EXCEPT ![t] = TRUE]
                      /\ pc' = [pc EXCEPT ![t] = "principal"]
                      /\ UNCHANGED <<ret, stepErr>>
                 ELSE /\ Failed(t, "driver")
                      /\ ReturnErr(t, "driver")
                      /\ UNCHANGED driverOpen

\* lines 65-87: the descriptor `mi` is built, then server.store.GetPrincipalByID;
\* its error is logged and leaves mi.Creator empty.  The store answers a
\* missing row by (nil, nil), as the nil tests of lines 98, 124 and 171 expect
\* of the other lookups; creator is not tested, so line 86 dereferences nil:
\* the run panics, its deferred calls run and RunOnce returns nothing
GetPrincipalByIDStep(t) ==
    /\ pc[t] = "principal"
    /\ Call(t, <<"GetPrincipalByID">>)
    /\ UNCHANGED <<payload, pgVars, fnVars, runVars, completed, flagWrites, ret, stepErr,
                   driverOpen, database, migrationID, attempts, storeVars, history,
                   liveDBs, syncVars>>
    /\ \E creator \in Lookups(t, {"found", "error", "nil"}) :
         /\ lineage' = [lineage EXCEPT ![t].creator = creator]
         /\ migrationInfo' = [migrationInfo EXCEPT
                                 ![t] = MigrationInfoOf(t, creator = "found", FALSE)]
         /\ pc' = [pc EXCEPT ![t] = IF creator = "nil" THEN "close" ELSE "issue"]

\* lines 89-106: server.store.GetIssueByPipelineID; an error or a missing issue
\* is logged and leaves mi.IssueID empty
GetIssueByPipelineIDStep(t) ==
    /\ pc[t] = "issue"
    /\ Call(t, <<"GetIssueByPipelineID">>)
    /\ pc' = [pc EXCEPT ![t] = "migrate"]
    /\ UNCHANGED <<payload, pgVars, fnVars, runVars, completed, flagWrites, ret, stepErr,
                   driverOpen, database, migrationID, attempts, storeVars, history,
                   liveDBs, syncVars>>
    /\ \E issue \in Lookups(t, {"found", "error", "nil"}) :
         /\ lineage' = [lineage EXCEPT ![t].issue = issue]
         /\ migrationInfo' = [migrationInfo EXCEPT
                                 ![t] = MigrationInfoOf(t, lineage[t].creator = "found",
                                                        issue = "found")]

\* mutant: the error of ExecuteMigration is dropped and the run goes on
MigrateIgnoringError(t) ==
    /\ pc[t] = "migrate"
    /\ Call(t, <<"ExecuteMigration">>)
    /\ pc' = [pc EXCEPT ![t] = "getdb"]
    /\ UNCHANGED <<payload, pgVars, fnVars, runVars, completed, flagWrites, ret,
                   stepErr, driverOpen, database, migrationID, migrationInfo, lineage,
                   attempts, storeVars, history, liveDBs, syncVars>>

\* lines 108-111: driver.ExecuteMigration with the descriptor and the statement
Migrate(t) ==
    /\ pc[t] = "migrate"
    /\ Call(t, <<"ExecuteMigration">>)
    /\ UNCHANGED <<payload, pgVars, fnVars, runVars, completed, flagWrites, driverOpen,
                   database, migrationInfo, lineage, attempts, storeVars, syncVars>>
    /\ \E ok \in Outcomes(t) :
         LET mi == migrationInfo[t]
             rec == MigrationRecord(history, mi, TrimSpace(payload[t].Statement))
         IN
         IF ok
         THEN /\ history' = Append(history, rec)
              /\ liveDBs' = liveDBs \cup {mi.Database}
              /\ migrationID' = [migrationID EXCEPT ![t] = rec.id]
              /\ pc' = [pc EXCEPT ![t] = "getdb"]
              /\ UNCHANGED <<ret, stepErr>>
         ELSE /\ Failed(t, ErrExecuteMigration)
              /\ ReturnErr(t, ErrExecuteMigration)
              /\ UNCHANGED <<history, liveDBs, migrationID>>

\* mutant: the error of GetDatabase is dropped and the run goes on as if no
\* row had been found
GetDatabaseStepIgnoringError(t) ==
    /\ pc[t] = "getdb"
    /\ Call(t, <<"GetDatabase">>)
    /\ UNCHANGED <<payload, pgVars, fnVars, runVars, completed, flagWrites, driverOpen,
                   migrationID, migrationInfo, lineage, attempts, storeVars, history,
                   liveDBs, syncVars>>
    /\ pc' = [pc EXCEPT ![t] = "reconcile"]
    /\ UNCHANGED ret
    /\ \E ok \in BOOLEAN :
         IF ok
         THEN /\ database' = [database EXCEPT ![t] = GetDatabase(databases, DatabaseFindOf(t))]
              /\ UNCHANGED stepErr
         ELSE /\ Failed(t, "GetDatabase")
              /\ database' = [database EXCEPT ![t] = NilDatabase]

\* server.store.GetDatabase
GetDatabaseStep(t) ==
    /\ pc[t] = "getdb"
    /\ Call(t, <<"GetDatabase">>)
    /\ UNCHANGED <<payload, pgVars, fnVars, runVars, completed, flagWrites, driverOpen,
                   migrationID, migrationInfo, lineage, attempts, storeVars, history,
                   liveDBs, syncVars>>
    /\ \E ok \in Outcomes(t) :
         IF ok
         THEN /\ database' = [database EXCEPT ![t] = GetDatabase(databases, DatabaseFindOf(t))]
              /\ pc' = [pc EXCEPT ![t] = "reconcile"]
              /\ UNCHANGED <<ret, stepErr>>
         ELSE /\ Failed(t, "GetDatabase")
              /\ ReturnErr(t, "GetDatabase")
              /\ UNCHANGED database

\* server.store.CreateDatabase, the branch taken when the lookup found no row
CreateDatabaseStep(t) ==
    /\ pc[t] = "reconcile"
    /\ DatabaseMissing(database[t])
    /\ Call(t, <<"CreateDatabase">>)
    /\ UNCHANGED <<payload, pgVars, fnVars, runVars, completed, flagWrites, driverOpen,
                   migrationID, migrationInfo, lineage, attempts, taskDatabaseID,
                   history, liveDBs, syncVars>>
    /\ \E ok \in Outcomes(t) :
         LET create == DatabaseCreateOf(t) IN
         IF CreateConflicts(databases, create)
         THEN /\ Failed(t, ErrUniqueConstraint)
              /\ ReturnErr(t, ErrUniqueConstraint)
              /\ UNCHANGED <<database, databases>>
         ELSE IF ok
         THEN /\ databases' = CreateDatabase(databases, create)
              /\ database' = [database EXCEPT ![t] = NewRow(databases, create)]
              /\ pc' = [pc EXCEPT ![t] = "patchtask"]
              /\ UNCHANGED <<ret, stepErr>>
         ELSE /\ Failed(t, "CreateDatabase")
              /\ ReturnErr(t, "CreateDatabase")
              /\ UNCHANGED <<database, databases>>

\* server.store.PatchDatabase, the branch taken when the lookup found a row
PatchDatabaseStep(t) ==
    /\ pc[t] = "reconcile"
    /\ ~DatabaseMissing(database[t])
    /\ Call(t, <<"PatchDatabase">>)
    /\ UNCHANGED <<payload, pgVars, fnVars, runVars, completed, flagWrites, driverOpen,
                   migrationID, migrationInfo, lineage, attempts, taskDatabaseID,
                   history, liveDBs, syncVars>>
    /\ \E ok \in Outcomes(t) :
         LET patch == DatabasePatchOf(t, database[t]) IN
         IF ok
         THEN /\ databases' = PatchDatabase(databases, patch)
              /\ database' = [database EXCEPT ![t] = RowByID(databases', patch.ID)]
              /\ pc' = [pc EXCEPT ![t] = "patchtask"]
              /\ UNCHANGED <<ret, stepErr>>
         ELSE /\ Failed(t, "PatchDatabase")
              /\ ReturnErr(t, "PatchDatabase")
              /\ UNCHANGED <<database, databases>>

\* mutant: the error of PatchTask is dropped and the run goes on to the labels
PatchTaskStepIgnoringError(t) ==
    /\ pc[t] = "patchtask"
    /\ Call(t, <<"PatchTask">>)
    /\ UNCHANGED <<payload, pgVars, fnVars, runVars, completed, flagWrites, driverOpen,
                   database, migrationID, migrationInfo, lineage, attempts, databases,
                   history, liveDBs, syncVars>>
    /\ pc' = [pc EXCEPT ![t] = "labeltest"]
    /\ UNCHANGED ret
    /\ \E ok \in BOOLEAN :
         IF ok
         THEN /\ taskDatabaseID' =
                    [taskDatabaseID EXCEPT ![t] = TaskPatchOf(t, database[t]).DatabaseID]
              /\ UNCHANGED stepErr
         ELSE /\ Failed(t, "PatchTask")
              /\ UNCHANGED taskDatabaseID

\* server.store.PatchTask
PatchTaskStep(t) ==
    /\ pc[t] = "patchtask"
    /\ Call(t, <<"PatchTask">>)
    /\ UNCHANGED <<payload, pgVars, fnVars, runVars, completed, flagWrites, driverOpen,
                   database, migrationID, migrationInfo, lineage, attempts, databases,
                   history, liveDBs, syncVars>>
    /\ \E ok \in Outcomes(t) :
         IF ok
         THEN /\ taskDatabaseID' =
                    [taskDatabaseID EXCEPT ![t] = TaskPatchOf(t, database[t]).DatabaseID]
              /\ pc' = [pc EXCEPT ![t] = "labeltest"]
              /\ UNCHANGED <<ret, stepErr>>
         ELSE /\ Failed(t, "PatchTask")
              /\ ReturnErr(t, "PatchTask")
              /\ UNCHANGED taskDatabaseID

\* `if payload.Labels != ""`, and the success return when there are none
LabelsTest(t) ==
    /\ pc[t] = "labeltest"
    /\ UNCHANGED <<payload, pgVars, fnVars, runVars, completed, flagWrites, driverOpen,
                   database, migrationID, migrationInfo, lineage, trace, attempts,
                   storeVars, history, liveDBs, syncVars>>
    /\ IF payload[t].Labels # NoLabels
       THEN /\ pc' = [pc EXCEPT ![t] = "project"]
            /\ UNCHANGED <<ret, stepErr>>
       ELSE ReturnOK(t, ResultOf(t, migrationID[t], history[migrationID[t]].info))

\* server.store.GetProjectByID
GetProjectStep(t) ==
    /\ pc[t] = "project"
    /\ Call(t, <<"GetProjectByID">>)
    /\ UNCHANGED <<payload, pgVars, fnVars, runVars, completed, flagWrites, driverOpen,
                   database, migrationID, migrationInfo, lineage, attempts, storeVars,
                   history, liveDBs, syncVars>>
    /\ \E outcome \in Lookups(t, {"found", "error", "nil"}) :
         CASE outcome = "found" -> /\ pc' = [pc EXCEPT ![t] = "labels"]
                                   /\ UNCHANGED <<ret, stepErr>>
           [] outcome = "error" -> /\ Failed(t, "GetProjectByID")
                                   /\ ReturnErr(t, "failed to find project with ID")
           [] outcome = "nil"   -> /\ Failed(t, NilErr)
                                   /\ ReturnErr(t, "project not found with ID")

\* server.setDatabaseLabels, then the success return
SetLabelsStep(t) ==
    /\ pc[t] = "labels"
    /\ Call(t, <<"setDatabaseLabels">>)
    /\ UNCHANGED <<payload, pgVars, fnVars, runVars, completed, flagWrites, driverOpen,
                   database, migrationID, migrationInfo, lineage, attempts,
                   taskDatabaseID, history, liveDBs, syncVars>>
    /\ \E ok \in Outcomes(t) :
         IF ok
         THEN /\ databases' = SetDatabaseLabels(databases, database[t].id, payload[t].Labels,
                                                database[t].creatorID)
              /\ ReturnOK(t, ResultOf(t, migrationID[t], history[migrationID[t]].info))
         ELSE /\ Failed(t, "setDatabaseLabels")
              /\ ReturnErr(t, "failed to record database labels after creating database")
              /\ UNCHANGED databases

\* mutant: the two defers are registered in the other order, so the flag is
\* stored before driver.Close runs
CloseDriverAfterFlag(t) ==
    /\ pc[t] = "close"
    /\ IF completed[t] = 0
       THEN /\ completed' = [completed EXCEPT ![t] = 1]
            /\ UNCHANGED <<driverOpen, trace, pc>>
       ELSE /\ driverOpen' = [driverOpen EXCEPT ![t] = FALSE]
            /\ Call(t, <<"Close">>)
            /\ pc' = [pc EXCEPT ![t] = "complete"]
            /\ UNCHANGED completed
    /\ UNCHANGED <<payload, pgVars, fnVars, runVars, flagWrites, ret,
                   stepErr, database, migrationID, migrationInfo, lineage, attempts,
                   storeVars, history, liveDBs, syncVars>>

\* `defer driver.Close(ctx)`: registered last, so it runs first
CloseDriver(t) ==
    /\ pc[t] = "close"
    /\ driverOpen' = [driverOpen EXCEPT ![t] = FALSE]
    /\ Call(t, <<"Close">>)
    /\ pc' = [pc EXCEPT ![t] = "complete"]
    /\ UNCHANGED <<payload, pgVars, fnVars, runVars, completed, flagWrites, ret,
                   stepErr, database, migrationID, migrationInfo, lineage, attempts,
                   storeVars, history, liveDBs, syncVars>>

\* mutant: the flag is stored at the end of the success path, not deferred
StoreCompletedOnSuccess(t) ==
    /\ pc[t] = "complete"
    /\ completed' = [completed EXCEPT ![t] = IF ret[t].err = NilErr THEN 1 ELSE @]
    /\ flagWrites' = [flagWrites EXCEPT ![t] = IF ret[t].err = NilErr THEN @ + 1 ELSE @]
    /\ pc' = [pc EXCEPT ![t] = Left(t)]
    /\ UNCHANGED <<payload, pgVars, fnVars, runVars, ret, stepErr, driverOpen,
                   database, migrationID, migrationInfo, lineage, trace, attempts,
                   storeVars, history, liveDBs, syncVars>>

\* `defer atomic.StoreInt32(&exec.completed, 1)`, then RunOnce has returned, or
\* has left by its panic
StoreCompleted(t) ==
    /\ pc[t] = "complete"
    /\ completed' = [completed EXCEPT ![t] = 1]
    /\ flagWrites' = [flagWrites EXCEPT ![t] = @ + 1]
    /\ pc' = [pc EXCEPT ![t] = Left(t)]
    /\ UNCHANGED <<payload, pgVars, fnVars, runVars, ret, stepErr, driverOpen,
                   database, migrationID, migrationInfo, lineage, trace, attempts,
                   storeVars, history, liveDBs, syncVars>>

(***************************************************************************)
(* The scheduler re-enqueues a failed task: a fresh attempt with a fresh   *)
(* executor.                                                               *)
(***************************************************************************)
Rerun(t) ==
    /\ pc[t] = "done"
    /\ ret[t].err # NilErr
    /\ attempts[t] < MaxAttempts
    /\ pc' = [pc EXCEPT ![t] = "pending"]
    /\ completed' = [completed EXCEPT ![t] = NewDatabaseCreateTaskExecutor]
    /\ ret' = [ret EXCEPT ![t] = NoReturn]
    /\ database' = [database EXCEPT ![t] = NilDatabase]
    /\ migrationID' = [migrationID EXCEPT ![t] = 0]
    /\ trace' = [trace EXCEPT ![t] = <<>>]
    /\ stepErr' = [stepErr EXCEPT ![t] = NilErr]
    /\ migrationInfo' = [migrationInfo EXCEPT ![t] = NilInfo]
    /\ lineage' = [lineage EXCEPT ![t] = NoLineage]
    /\ flagWrites' = [flagWrites EXCEPT ![t] = 0]
    /\ progress' = [progress EXCEPT ![t] = <<>>]
    /\ cancelledAt' = [cancelledAt EXCEPT ![t] = "none"]
    /\ seen' = [seen EXCEPT ![t] = FALSE]
    /\ UNCHANGED <<payload, pgVars, fnVars, effective, driverOpen, attempts, storeVars,
                   history, liveDBs, syncVars>>

(***************************************************************************)
(* A schema sync pass over the instance: list the live databases, then     *)
(* store every one the store does not hold yet under the default project.  *)
(***************************************************************************)
SyncList ==
    /\ syncPc = "idle"
    /\ syncRuns < MaxSyncs
    /\ syncRuns' = syncRuns + 1
    /\ syncFound' = liveDBs
    /\ syncPc' = "store"
    /\ UNCHANGED <<payload, pgVars, fnVars, runVars, execVars, storeVars, history,
                   liveDBs, syncStored>>

SyncStore(name) ==
    /\ syncPc = "store"
    /\ name \in syncFound
    /\ syncFound' = syncFound \ {name}
    /\ syncStored' = syncStored \cup {name}
    /\ databases' = IF CreateConflicts(databases, SyncDatabaseCreate(name))
                    THEN databases
                    ELSE CreateDatabase(databases, SyncDatabaseCreate(name))
    /\ UNCHANGED <<payload, pgVars, fnVars, runVars, execVars, taskDatabaseID, history,
                   liveDBs, syncPc, syncRuns>>

SyncDone ==
    /\ syncPc = "store"
    /\ syncFound = {}
    /\ syncPc' = "idle"
    /\ UNCHANGED <<payload, pgVars, fnVars, runVars, execVars, storeVars, history,
                   liveDBs, syncFound, syncRuns, syncStored>>

Next ==
    \/ \E t \in Tasks : Begin(t)
    \/ \E t \in Tasks : GetPrincipalByIDStep(t)
    \/ \E t \in Tasks : GetIssueByPipelineIDStep(t)
    \/ \E t \in Tasks : Migrate(t)
    \/ \E t \in Tasks : GetDatabaseStep(t)
    \/ \E t \in Tasks : CreateDatabaseStep(t)
    \/ \E t \in Tasks : PatchDatabaseStep(t)
    \/ \E t \in Tasks : PatchTaskStep(t)
    \/ \E t \in Tasks : LabelsTest(t)
    \/ \E t \in Tasks : GetProjectStep(t)
    \/ \E t \in Tasks : SetLabelsStep(t)
    \/ \E t \in Tasks : CloseDriver(t)
    \/ \E t \in Tasks : StoreCompleted(t)
    \/ \E t \in Tasks : Rerun(t)
    \/ SyncList
    \/ \E name \in DatabaseNames : SyncStore(name)
    \/ SyncDone

Spec == Init /\ [][Next]_vars

(***************************************************************************)
(* One executor with the goroutines around it: a poller that calls         *)
(* GetProgress, and the pipeline that cancels the context of the run.      *)
(***************************************************************************)
\* positions of the body of RunOnce, before its return statement
BodyPositions == {"principal", "issue", "migrate", "getdb", "reconcile", "patchtask", "labeltest", "project", "labels"}
\* versions the Migration Executor may report for a run
EffectiveVersions(t) == {payload[t].SchemaVersion, "v1-applied"}

\* GetProgress, called by a poller at any time
PollProgress(t) ==
    /\ Len(progress[t]) < MaxPolls
    /\ progress' = [progress EXCEPT ![t] = Append(@, GetProgress(t))]
    /\ UNCHANGED <<payload, execVars, storeVars, history, liveDBs, syncVars, pgVars,
                   fnVars, cancelledAt, seen, effective>>

\* the pipeline is aborted: ctx of the running RunOnce is cancelled
Cancel(t) ==
    /\ pc[t] \in BodyPositions
    /\ cancelledAt[t] = "none"
    /\ cancelledAt' = [cancelledAt EXCEPT ![t] = pc[t]]
    /\ UNCHANGED <<payload, execVars, storeVars, history, liveDBs, syncVars, pgVars,
                   fnVars, progress, seen, effective>>

\* IsCompleted, called by a poller at any time
PollCompleted(t) ==
    /\ seen[t] # IsCompleted(t)
    /\ seen' = [seen EXCEPT ![t] = IsCompleted(t)]
    /\ UNCHANGED <<payload, execVars, storeVars, history, liveDBs, syncVars, pgVars,
                   fnVars, progress, cancelledAt, effective>>

InitRun ==
    /\ payload \in {f \in [Tasks -> UNION {Payloads(t) : t \in Tasks}] :
                        \A t \in Tasks : f[t] \in Payloads(t)}
    /\ ExecutorInit
    /\ catalog = CHOOSE c \in Catalogs : c.views = <<>> /\ c.indexes = <<IndexT1Pkey, IndexT1Plain>>
    /\ published = NilSchema
    /\ PgIdle
    /\ FnIdle
    /\ progress = [t \in Tasks |-> <<>>]
    /\ cancelledAt = [t \in Tasks |-> "none"]
    /\ seen = [t \in Tasks |-> FALSE]
    /\ effective \in {f \in [Tasks -> UNION {EffectiveVersions(t) : t \in Tasks}] :
                          \A t \in Tasks : f[t] \in EffectiveVersions(t)}

\* a step of RunOnce
RunStep(t) ==
    \/ GetPrincipalByIDStep(t)
    \/ GetIssueByPipelineIDStep(t)
    \/ Migrate(t)
    \/ GetDatabaseStep(t)
    \/ CreateDatabaseStep(t)
    \/ PatchDatabaseStep(t)
    \/ PatchTaskStep(t)
    \/ LabelsTest(t)
    \/ GetProjectStep(t)
    \/ SetLabelsStep(t)
    \/ CloseDriver(t)
    \/ StoreCompleted(t)

NextRun ==
    \/ \E t \in Tasks : Begin(t)
    \/ \E t \in Tasks : RunStep(t)
    \/ \E t \in Tasks : Rerun(t)
    \/ \E t \in Tasks : PollProgress(t)
    \/ \E t \in Tasks : PollCompleted(t)
    \/ \E t \in Tasks : Cancel(t)

SpecRun == InitRun /\ [][NextRun]_vars

(***************************************************************************)
(* The calls on one executor: RunOnce, which nothing in the executor keeps *)
(* from being called again once it has returned, IsCompleted and           *)
(* GetProgress.                                                            *)
(***************************************************************************)
\* RunOnce is called again on the executor whose RunOnce has returned: the
\* locals of the call are new, the field `completed` is the executor's
RunOnceAgain(t) ==
    /\ pc[t] = "done"
    /\ attempts[t] < MaxAttempts
    /\ pc' = [pc EXCEPT ![t] = "pending"]
    /\ ret' = [ret EXCEPT ![t] = NoReturn]
    /\ database' = [database EXCEPT ![t] = NilDatabase]
    /\ migrationID' = [migrationID EXCEPT ![t] = 0]
    /\ trace' = [trace EXCEPT ![t] = <<>>]
    /\ stepErr' = [stepErr EXCEPT ![t] = NilErr]
    /\ migrationInfo' = [migrationInfo EXCEPT ![t] = NilInfo]
    /\ lineage' = [lineage EXCEPT ![t] = NoLineage]
    /\ UNCHANGED <<payload, pgVars, fnVars, runVars, completed, flagWrites, driverOpen,
                   attempts, storeVars, history, liveDBs, syncVars>>

NextExecutor ==
    \/ \E t \in Tasks : Begin(t)
    \/ \E t \in Tasks : RunStep(t)
    \/ \E t \in Tasks : RunOnceAgain(t)
    \/ \E t \in Tasks : PollProgress(t)
    \/ \E t \in Tasks : PollCompleted(t)

SpecExecutor == Init /\ [][NextExecutor]_vars

(***************************************************************************)
(* Termination of RunOnce.  The goroutine that runs RunOnce keeps being    *)
(* scheduled and every driver and store call it makes returns, so a step   *)
(* of the run that is possible is eventually taken; whether the scheduler  *)
(* starts a run, or a fresh attempt, is left open.                         *)
(***************************************************************************)
NextLive ==
    \/ \E t \in Tasks : Begin(t)
    \/ \E t \in Tasks : RunStep(t)
    \/ \E t \in Tasks : Rerun(t)

SpecLive == Init /\ [][NextLive]_vars /\ WF_vars(\E t \in Tasks : RunStep(t))

(***************************************************************************)
(* SyncDBSchema, one action per round of catalog queries.  The transaction *)
(* is begun with default options (BeginTx(ctx, nil)): every query reads    *)
(* the catalog as committed when the query runs.                           *)
(***************************************************************************)
serverVars == <<payload, execVars, storeVars, history, liveDBs, syncVars, runVars, fnVars>>

PgCall(ops) == pgTrace' = pgTrace \o ops

\* the reason the call fails: a driver call that returned an error, or rows
\* the function rejects
PgFail(reason) == pgFault' = reason

\* mutant: the error return leaves without the deferred Rollback
PgReturnErrLeavingTxn(e) ==
    /\ pgRet' = [schema |-> NilSchema, err |-> e]
    /\ pgPc' = "returned"

\* `return nil, err`: the deferred Rollback, once registered, runs next
PgReturnErr(e) ==
    /\ pgRet' = [schema |-> NilSchema, err |-> e]
    /\ pgPc' = IF txn # "nil" THEN "rollback" ELSE "returned"

\* fmt.Errorf("failed to get ... database %q: %s", databaseName, err)
ErrDatabase(text, e) == PgErr(text, << <<databaseName>> >>, <<e>>)
\* fmt.Errorf("getX(%q, %q) got error %v", schemaName, name, err)
ErrObject(text, row, e) == PgErr(text, <<row.schemaName, row.name>>, <<e>>)

\* mutant: the search result is not tested, the call goes on to connect
SyncDBSchemaWithoutFoundTest(name) ==
    /\ pgPc = "idle"
    /\ pgRuns < MaxSchemaSyncs
    /\ pgRuns' = pgRuns + 1
    /\ databaseName' = name
    /\ PgCall(<<"getDatabases">>)
    /\ UNCHANGED <<serverVars, catalog, ddlCount, txn, indices, constraints, scanVars, published>>
    /\ \E ok \in BOOLEAN :
         IF ~ok
         THEN /\ PgFail("getDatabases")
              /\ PgReturnErr(PgErr("failed to get databases", <<>>,
                                   <<DriverErr("getDatabases")>>))
              /\ UNCHANGED schema
         ELSE /\ schema' = [ Name          |-> name,
                             CharacterSet  |-> IF Found(name)
                                               THEN FoundDatabase(name).encoding ELSE "",
                             Collation     |-> IF Found(name)
                                               THEN FoundDatabase(name).collate ELSE "",
                             TableList     |-> <<>>,
                             ViewList      |-> <<>>,
                             ExtensionList |-> <<>> ]
              /\ pgPc' = "connect"
              /\ UNCHANGED <<pgRet, pgFault>>

\* the call, getDatabases and the search for databaseName (lines 140-161)
SyncDBSchema(name) ==
    /\ pgPc = "idle"
    /\ pgRuns < MaxSchemaSyncs
    /\ pgRuns' = pgRuns + 1
    /\ databaseName' = name
    /\ PgCall(<<"getDatabases">>)
    /\ UNCHANGED <<serverVars, catalog, ddlCount, txn, indices, constraints, scanVars, published>>
    /\ \E ok \in BOOLEAN :
         IF ~ok
         THEN /\ PgFail("getDatabases")
              /\ PgReturnErr(PgErr("failed to get databases", <<>>,
                                   <<DriverErr("getDatabases")>>))
              /\ UNCHANGED schema
         ELSE /\ schema' = [ Name          |-> name,
                             CharacterSet  |-> IF Found(name)
                                               THEN FoundDatabase(name).encoding ELSE "",
                             Collation     |-> IF Found(name)
                                               THEN FoundDatabase(name).collate ELSE "",
                             TableList     |-> <<>>,
                             ViewList      |-> <<>>,
                             ExtensionList |-> <<>> ]
              /\ IF Found(name)
                 THEN /\ pgPc' = "connect"
                      /\ UNCHANGED <<pgRet, pgFault>>
                 ELSE /\ PgFail("not found")
                      /\ PgReturnErr(PgErr("NotFound: database not found",
                                           << <<name>> >>, <<>>))

\* driver.GetDBConnection (lines 163-166)
GetDBConnection ==
    /\ pgPc = "connect"
    /\ PgCall(<<"GetDBConnection">>)
    /\ UNCHANGED <<serverVars, catalog, ddlCount, databaseName, txn, indices, constraints, scanVars,
                   schema, pgRuns, published>>
    /\ \E ok \in BOOLEAN :
         IF ok
         THEN /\ pgPc' = "begin"
              /\ UNCHANGED <<pgRet, pgFault>>
         ELSE /\ PgFail("GetDBConnection")
              /\ PgReturnErr(ErrDatabase("failed to get database connection",
                                         DriverErr("GetDBConnection")))

\* sqldb.BeginTx and `defer txn.Rollback()` (lines 167-171)
BeginTx ==
    /\ pgPc = "begin"
    /\ PgCall(<<"BeginTx">>)
    /\ UNCHANGED <<serverVars, catalog, ddlCount, databaseName, indices, constraints, scanVars,
                   schema, pgRuns, published>>
    /\ \E ok \in BOOLEAN :
         IF ok
         THEN /\ txn' = "open"
              /\ pgPc' = "indices"
              /\ UNCHANGED <<pgRet, pgFault>>
         ELSE /\ PgFail("BeginTx")
              /\ PgReturnErr(DriverErr("BeginTx"))
              /\ UNCHANGED txn

IndicesText == "failed to get indices from database"
TablesText == "failed to get tables from database"
ViewsText == "failed to get views from database"

\* getIndices up to the end of its scan: the pg_indexes query and
\* getIndexColumnExpressions on every row (lines 175, 562-589)
GetIndices ==
    /\ pgPc = "indices"
    /\ PgCall(<<"getIndices">>)
    /\ UNCHANGED <<serverVars, catalog, ddlCount, databaseName, txn, constraints, tables,
                   views, schema, pgRuns, published>>
    /\ LET rows == IndexRows(catalog)
           bad == BadIndexRows(rows)
       IN
       \E ok \in BOOLEAN :
         IF ~ok
         THEN /\ PgFail("getIndices.Query")
              /\ PgReturnErr(ErrDatabase(IndicesText, DriverErr("getIndices.Query")))
              /\ UNCHANGED <<indices, cursor>>
         ELSE IF bad # {}
         THEN /\ PgFail("getIndexColumnExpressions")
              /\ PgReturnErr(ErrDatabase(IndicesText,
                     PgErr("invalid index statement", <<rows[MinOf(bad)].statement>>, <<>>)))
              /\ UNCHANGED <<indices, cursor>>
         ELSE /\ indices' = ScannedIndices(rows)
              /\ cursor' = 1
              /\ pgPc' = IF rows = <<>> THEN "constraints" ELSE "index"
              /\ UNCHANGED <<pgRet, pgFault>>

\* getIndex of the index at the cursor (lines 591-594, 629-645); the
\* statement fails when the index is gone
GetIndex ==
    /\ pgPc = "index"
    /\ PgCall(<<"getIndex">>)
    /\ UNCHANGED <<serverVars, catalog, ddlCount, databaseName, txn, constraints, scanVars,
                   schema, pgRuns, published>>
    /\ \E ok \in BOOLEAN :
         IF ok /\ Exists(catalog.indexes, indices[cursor])
         THEN /\ indices' = [indices EXCEPT ![cursor] = getIndex(catalog, @)]
              /\ pgPc' = "primary"
              /\ UNCHANGED <<pgRet, pgFault>>
         ELSE /\ PgFail("getIndex")
              /\ PgReturnErr(ErrDatabase(IndicesText,
                     ErrObject("getIndex", indices[cursor], DriverErr("getIndex"))))
              /\ UNCHANGED indices

\* getPrimary of the index at the cursor (lines 596-598, 606-626), then the
\* next index or the return of getIndices and the map of lines 179-182
GetPrimary ==
    /\ pgPc = "primary"
    /\ PgCall(<<"getPrimary">>)
    /\ UNCHANGED <<serverVars, catalog, ddlCount, databaseName, txn, constraints, tables,
                   views, schema, pgRuns, published>>
    /\ \E ok \in BOOLEAN :
         IF ok
         THEN /\ indices' = [indices EXCEPT ![cursor] = getPrimary(catalog, @)]
              /\ cursor' = IF cursor = Len(indices) THEN 0 ELSE cursor + 1
              /\ pgPc' = IF cursor = Len(indices) THEN "constraints" ELSE "index"
              /\ UNCHANGED <<pgRet, pgFault>>
         ELSE /\ PgFail("getPrimary")
              /\ PgReturnErr(ErrDatabase(IndicesText,
                     ErrObject("getPrimary", indices[cursor], DriverErr("getPrimary"))))
              /\ UNCHANGED <<indices, cursor>>

\* getPgTables up to the table query: getTableConstraints (lines 185, 301-304, 445-473)
GetTableConstraints ==
    /\ pgPc = "constraints"
    /\ PgCall(<<"getTableConstraints">>)
    /\ UNCHANGED <<serverVars, catalog, ddlCount, databaseName, txn, indices, scanVars, schema,
                   pgRuns, published>>
    /\ \E ok \in BOOLEAN :
         IF ok
         THEN /\ constraints' = getTableConstraints(ConstraintRows(catalog))
              /\ pgPc' = "tables"
              /\ UNCHANGED <<pgRet, pgFault>>
         ELSE /\ PgFail("getTableConstraints")
              /\ PgReturnErr(ErrDatabase("failed to get tables from database",
                     PgErr("getTableConstraints() got error", <<>>,
                           <<DriverErr("getTableConstraints")>>)))
              /\ UNCHANGED constraints

\* getPgTables: the pg_tables query and its scan (lines 306-334)
GetPgTables ==
    /\ pgPc = "tables"
    /\ PgCall(<<"getPgTables">>)
    /\ UNCHANGED <<serverVars, catalog, ddlCount, databaseName, txn, indices, constraints,
                   views, schema, pgRuns, published>>
    /\ \E ok \in BOOLEAN :
         IF ~ok
         THEN /\ PgFail("getPgTables.Query")
              /\ PgReturnErr(ErrDatabase(TablesText, DriverErr("getPgTables.Query")))
              /\ UNCHANGED <<tables, cursor>>
         ELSE /\ tables' = ScannedTables(TableRows(catalog))
              /\ cursor' = 1
              /\ pgPc' = IF TableRows(catalog) = <<>> THEN "views" ELSE "count"
              /\ UNCHANGED <<pgRet, pgFault>>

\* getTable of the table at the cursor, its first statement: the row count
\* (lines 336-339, 353-366); the statement fails when the table is gone
GetTableCount ==
    /\ pgPc = "count"
    /\ PgCall(<<"getTable">>)
    /\ UNCHANGED <<serverVars, catalog, ddlCount, databaseName, txn, indices, constraints,
                   views, cursor, schema, pgRuns, published>>
    /\ \E ok \in BOOLEAN :
         IF ok /\ Exists(catalog.tables, tables[cursor])
         THEN /\ tables' = [tables EXCEPT ![cursor] = getTableCount(catalog, @)]
              /\ pgPc' = "comment"
              /\ UNCHANGED <<pgRet, pgFault>>
         ELSE /\ PgFail("getTable")
              /\ PgReturnErr(ErrDatabase(TablesText,
                     ErrObject("getTable", tables[cursor], DriverErr("getTable"))))
              /\ UNCHANGED tables

\* getTable, its second statement: the comment (lines 368-381)
GetTableComment ==
    /\ pgPc = "comment"
    /\ PgCall(<<"getTable.comment">>)
    /\ UNCHANGED <<serverVars, catalog, ddlCount, databaseName, txn, indices, constraints,
                   views, cursor, schema, pgRuns, published>>
    /\ \E ok \in BOOLEAN :
         IF ok /\ Exists(catalog.tables, tables[cursor])
         THEN /\ tables' = [tables EXCEPT ![cursor] = getTableComment(catalog, @)]
              /\ pgPc' = "columns"
              /\ UNCHANGED <<pgRet, pgFault>>
         ELSE /\ PgFail("getTable")
              /\ PgReturnErr(ErrDatabase(TablesText,
                     ErrObject("getTable", tables[cursor], DriverErr("getTable"))))
              /\ UNCHANGED tables

\* getTableColumns of the table at the cursor and its constraints (lines
\* 340-347), then the next table, or the return of getPgTables and the
\* db.Table list of lines 189-224
GetTableColumns ==
    /\ pgPc = "columns"
    /\ PgCall(<<"getTableColumns">>)
    /\ UNCHANGED <<serverVars, catalog, ddlCount, databaseName, txn, indices, constraints,
                   views, pgRuns, published>>
    /\ LET tbl == tables[cursor]
           key == Key(tbl.schemaName, tbl.name)
           filled == [tables EXCEPT ![cursor] =
                         [@ EXCEPT !.columns = getTableColumns(catalog, tbl),
                                   !.constraints = ConstraintsOf(constraints, key)]]
       IN
       \E ok \in BOOLEAN :
         IF ok
         THEN /\ tables' = filled
              /\ cursor' = IF cursor = Len(tables) THEN 0 ELSE cursor + 1
              /\ pgPc' = IF cursor = Len(tables) THEN "views" ELSE "count"
              /\ schema' = IF cursor = Len(tables)
                           THEN [schema EXCEPT !.TableList = TableListOf(filled, indices)]
                           ELSE schema
              /\ UNCHANGED <<pgRet, pgFault>>
         ELSE /\ PgFail("getTableColumns")
              /\ PgReturnErr(ErrDatabase(TablesText,
                     ErrObject("getTableColumns", tbl, DriverErr("getTableColumns"))))
              /\ UNCHANGED <<tables, cursor, schema>>

\* mutant: a view without a definition is kept, with the empty definition
GetViewsKeepingNull ==
    /\ pgPc = "views"
    /\ PgCall(<<"getViews">>)
    /\ views' = ScannedViews(ViewRows(catalog))
    /\ cursor' = 1
    /\ pgPc' = IF ViewRows(catalog) = <<>> THEN "extensions" ELSE "view"
    /\ UNCHANGED <<serverVars, catalog, ddlCount, databaseName, txn, indices, constraints,
                   tables, schema, pgRuns, published, pgRet, pgFault>>

\* getViews: the pg_views query and its scan, which rejects a NULL definition
\* (lines 226, 476-503)
GetViews ==
    /\ pgPc = "views"
    /\ PgCall(<<"getViews">>)
    /\ UNCHANGED <<serverVars, catalog, ddlCount, databaseName, txn, indices, constraints,
                   tables, schema, pgRuns, published>>
    /\ LET rows == ViewRows(catalog)
           null == NullViewRows(rows)
       IN
       \E ok \in BOOLEAN :
         IF ~ok
         THEN /\ PgFail("getViews.Query")
              /\ PgReturnErr(ErrDatabase(ViewsText, DriverErr("getViews.Query")))
              /\ UNCHANGED <<views, cursor>>
         ELSE IF null # {}
         THEN /\ PgFail("empty definition")
              /\ PgReturnErr(ErrDatabase(ViewsText, ErrEmptyDefinition(rows[MinOf(null)])))
              /\ UNCHANGED <<views, cursor>>
         ELSE /\ views' = ScannedViews(rows)
              /\ cursor' = 1
              /\ pgPc' = IF rows = <<>> THEN "extensions" ELSE "view"
              /\ UNCHANGED <<pgRet, pgFault>>

\* getView of the view at the cursor (lines 505-509, 513-529), then the next
\* view, or the return of getViews and the db.View list of lines 230-239
GetView ==
    /\ pgPc = "view"
    /\ PgCall(<<"getView">>)
    /\ UNCHANGED <<serverVars, catalog, ddlCount, databaseName, txn, indices, constraints,
                   tables, pgRuns, published>>
    /\ \E ok \in BOOLEAN :
         IF ok /\ Exists(catalog.views, views[cursor])
         THEN LET filled == [views EXCEPT ![cursor] = getView(catalog, @)] IN
              /\ views' = filled
              /\ cursor' = IF cursor = Len(views) THEN 0 ELSE cursor + 1
              /\ pgPc' = IF cursor = Len(views) THEN "extensions" ELSE "view"
              /\ schema' = IF cursor = Len(views)
                           THEN [schema EXCEPT !.ViewList = ViewListOf(filled)]
                           ELSE schema
              /\ UNCHANGED <<pgRet, pgFault>>
         ELSE /\ PgFail("getView")
              /\ PgReturnErr(ErrDatabase(ViewsText,
                     ErrObject("getView", views[cursor], DriverErr("getView"))))
              /\ UNCHANGED <<views, cursor, schema>>

\* getExtensions (lines 241-245 and 532-559)
GetExtensions ==
    /\ pgPc = "extensions"
    /\ PgCall(<<"getExtensions">>)
    /\ UNCHANGED <<serverVars, catalog, ddlCount, databaseName, txn, indices, constraints, scanVars,
                   pgRuns, published>>
    /\ \E ok \in BOOLEAN :
         IF ok
         THEN /\ schema' = [schema EXCEPT !.ExtensionList = getExtensions(catalog)]
              /\ pgPc' = "commit"
              /\ UNCHANGED <<pgRet, pgFault>>
         ELSE /\ PgFail("getExtensions")
              /\ PgReturnErr(ErrDatabase("failed to get extensions from database",
                                         DriverErr("getExtensions")))
              /\ UNCHANGED schema

\* mutant: the error of Commit is dropped and the snapshot is returned
CommitIgnoringError ==
    /\ pgPc = "commit"
    /\ PgCall(<<"Commit">>)
    /\ UNCHANGED <<serverVars, catalog, ddlCount, databaseName, indices, constraints, scanVars,
                   schema, pgRuns, published>>
    /\ pgRet' = [schema |-> schema, err |-> NoPgErr]
    /\ pgPc' = "rollback"
    /\ \E ok \in BOOLEAN :
         IF ok
         THEN /\ txn' = "committed"
              /\ UNCHANGED pgFault
         ELSE /\ PgFail("Commit")
              /\ txn' \in {"open", "rolledback"}

\* txn.Commit and `return &schema, err` (lines 247-251).  A Commit that fails
\* has either ended the transaction or, when the context is done, not
\* touched it.
Commit ==
    /\ pgPc = "commit"
    /\ PgCall(<<"Commit">>)
    /\ UNCHANGED <<serverVars, catalog, ddlCount, databaseName, indices, constraints, scanVars,
                   schema, pgRuns, published>>
    /\ \E ok \in BOOLEAN :
         IF ok
         THEN /\ txn' = "committed"
              /\ pgRet' = [schema |-> schema, err |-> NoPgErr]
              /\ pgPc' = "rollback"
              /\ UNCHANGED pgFault
         ELSE /\ PgFail("Commit")
              /\ txn' \in {"open", "rolledback"}
              /\ PgReturnErr(DriverErr("Commit"))

\* the deferred txn.Rollback (line 171): ends a transaction that is still open
Rollback ==
    /\ pgPc = "rollback"
    /\ PgCall(<<"Rollback">>)
    /\ txn' = IF txn = "open" THEN "rolledback" ELSE txn
    /\ pgPc' = "returned"
    /\ UNCHANGED <<serverVars, catalog, ddlCount, databaseName, indices, constraints, scanVars,
                   schema, pgRet, pgFault, pgRuns, published>>

\* the caller takes the result: a snapshot replaces the one it holds, an error
\* leaves it
Publish ==
    /\ pgPc = "returned"
    /\ published' = IF pgRet.schema # NilSchema THEN pgRet.schema ELSE published
    /\ pgPc' = "idle"
    /\ databaseName' = ""
    /\ txn' = "nil"
    /\ indices' = <<>>
    /\ constraints' = <<>>
    /\ tables' = <<>>
    /\ views' = <<>>
    /\ cursor' = 0
    /\ schema' = NilSchema
    /\ pgRet' = [schema |-> NilSchema, err |-> NoPgErr]
    /\ pgFault' = "none"
    /\ pgTrace' = <<>>
    /\ UNCHANGED <<serverVars, catalog, ddlCount, pgRuns>>

\* another session commits DDL on the database
DDL ==
    /\ ddlCount < MaxDDL
    /\ ddlCount' = ddlCount + 1
    /\ catalog' \in {CreateTableT2(catalog)}
                     \cup {DropIndex(catalog, name) : name \in DroppableIndexes(catalog)}
    /\ UNCHANGED <<serverVars, pgPc, databaseName, txn, indices, constraints, scanVars, schema,
                   pgRet, pgFault, pgTrace, pgRuns, published>>

InitPg ==
    /\ payload = [t \in Tasks |-> MalformedPayload(t)]
    /\ ExecutorInit
    /\ catalog \in Catalogs
    /\ published \in {NilSchema, PriorSnapshot}
    /\ PgIdle
    /\ RunIdle
    /\ FnIdle

NextPg ==
    \/ \E name \in SyncNames : SyncDBSchema(name)
    \/ GetDBConnection
    \/ BeginTx
    \/ GetIndices
    \/ GetIndex
    \/ GetPrimary
    \/ GetTableConstraints
    \/ GetPgTables
    \/ GetTableCount
    \/ GetTableComment
    \/ GetTableColumns
    \/ GetViews
    \/ GetView
    \/ GetExtensions
    \/ Commit
    \/ Rollback
    \/ Publish
    \/ DDL

SpecPg == InitPg /\ [][NextPg]_vars

(***************************************************************************)
(* SyncInstance (plugin/db/pg/sync.go), called concurrently: one action    *)
(* per query it issues, and one for the entry and one for the exit of each *)
(* loop that accesses the package-level map.                               *)
(***************************************************************************)
instanceFrame == <<payload, execVars, storeVars, history, liveDBs, syncVars, runVars,
                   pgVars, indexStmt, parsed, licenseVars>>

InstanceReturn(c, meta, e) ==
    /\ instancePc' = [instancePc EXCEPT ![c] = "returned"]
    /\ instanceRet' = [instanceRet EXCEPT ![c] = [meta |-> meta, err |-> e]]

\* call c is inside its loop of map writes while another call is inside its
\* loop of map writes or of map reads, or the other way round: the accesses take
\* no lock, so they are a data race on the map
Racing(c) ==
    \E d \in InstanceCalls \ {c} :
        \/ instancePc[c] = "merging" /\ instancePc[d] \in {"merging", "filtering"}
        \/ instancePc[c] = "filtering" /\ instancePc[d] = "merging"

\* the runtime found the map being written by another goroutine and ended the
\* process ("fatal error: concurrent map writes", or "... read and map write")
Fatal ==
    /\ instancePc' = [c \in InstanceCalls |-> "fatal"]
    /\ UNCHANGED instanceRet

\* lines 95-98: getVersion
SyncInstance(c) ==
    /\ instancePc[c] = "idle"
    /\ \/ /\ instancePc' = [instancePc EXCEPT ![c] = "users"]
          /\ UNCHANGED instanceRet
       \/ InstanceReturn(c, NilMeta, DriverErr("getVersion"))
    /\ UNCHANGED <<instanceFrame, reported, excludedDatabaseList>>

\* lines 101-104: getUserList
GetUserList(c) ==
    /\ instancePc[c] = "users"
    /\ \/ /\ instancePc' = [instancePc EXCEPT ![c] = "merge"]
          /\ UNCHANGED instanceRet
       \/ InstanceReturn(c, NilMeta, DriverErr("getUserList"))
    /\ UNCHANGED <<instanceFrame, reported, excludedDatabaseList>>

\* lines 107-109: the loop that stores every key of systemDatabases into the
\* map is entered
MergeSystemDatabases(c) ==
    /\ instancePc[c] = "merge"
    /\ excludedDatabaseList' = excludedDatabaseList \cup systemDatabases
    /\ instancePc' = [instancePc EXCEPT ![c] = "merging"]
    /\ UNCHANGED <<instanceFrame, reported, instanceRet>>

\* lines 107-109: the loop is left; a racing access has an undefined outcome,
\* which the runtime turns into the fatal error or lets pass
MergeDone(c) ==
    /\ instancePc[c] = "merging"
    /\ \/ /\ instancePc' = [instancePc EXCEPT ![c] = "databases"]
          /\ UNCHANGED instanceRet
       \/ /\ Racing(c)
          /\ Fatal
    /\ UNCHANGED <<instanceFrame, reported, excludedDatabaseList>>

\* lines 111-114: getDatabases; on success the filtering loop is entered
GetDatabases(c) ==
    /\ instancePc[c] = "databases"
    /\ \/ /\ instancePc' = [instancePc EXCEPT ![c] = "filtering"]
          /\ UNCHANGED instanceRet
       \/ InstanceReturn(c, NilMeta,
                         PgErr("failed to get databases", <<>>, <<DriverErr("getDatabases")>>))
    /\ UNCHANGED <<instanceFrame, reported, excludedDatabaseList>>

\* lines 115-136: the loop that looks every row up in the map, and the return
FilterDatabases(c) ==
    /\ instancePc[c] = "filtering"
    /\ \/ InstanceReturn(c, InstanceMetaOf(reported, excludedDatabaseList), NoPgErr)
       \/ /\ Racing(c)
          /\ Fatal
    /\ UNCHANGED <<instanceFrame, reported, excludedDatabaseList>>

InitInstance ==
    /\ payload = [t \in Tasks |-> MalformedPayload(t)]
    /\ ExecutorInit
    /\ catalog = CHOOSE c \in Catalogs : c.views = <<>> /\ c.indexes = <<IndexT1Pkey, IndexT1Plain>>
    /\ published = NilSchema
    /\ PgIdle
    /\ RunIdle
    /\ reported \in ReportedLists
    /\ InstanceIdle
    /\ indexStmt = <<>>
    /\ parsed = NotParsed
    /\ LicenseIdle

NextInstance ==
    \/ \E c \in InstanceCalls : SyncInstance(c)
    \/ \E c \in InstanceCalls : GetUserList(c)
    \/ \E c \in InstanceCalls : MergeSystemDatabases(c)
    \/ \E c \in InstanceCalls : MergeDone(c)
    \/ \E c \in InstanceCalls : GetDatabases(c)
    \/ \E c \in InstanceCalls : FilterDatabases(c)

SpecInstance == InitInstance /\ [][NextInstance]_vars

(***************************************************************************)
(* getIndexColumnExpressions applied to one index statement, one action    *)
(* per iteration of its loop.                                              *)
(***************************************************************************)
indexFrame == <<payload, execVars, storeVars, history, liveDBs, syncVars, runVars,
                pgVars, reported, excludedDatabaseList, instancePc, instanceRet,
                indexStmt, licenseVars>>

\* lines 663-668: the statement is matched, and the loop entered on its
\* column text
GetIndexColumnExpressions ==
    /\ ~parsed.called
    /\ ~parsed.looping
    /\ parsed' = IF ~ColumnStmtMatches(indexStmt)
                 THEN [NotParsed EXCEPT !.called = TRUE]
                 ELSE [NotParsed EXCEPT !.looping = TRUE, !.rest = ColumnStmt(indexStmt)]
    /\ UNCHANGED indexFrame

\* lines 672-702: the test that ends the loop, or one iteration of it
TokenizeIteration ==
    /\ parsed.looping
    /\ parsed' =
         IF Len(parsed.rest) = 0
         THEN [parsed EXCEPT !.looping = FALSE, !.called = TRUE, !.ok = TRUE]
         ELSE IF ~LoopBody(parsed.rest).ok
         THEN [parsed EXCEPT !.looping = FALSE, !.called = TRUE, !.ok = FALSE,
                             !.cols = <<>>]
         ELSE [parsed EXCEPT !.cols = Append(@, LoopBody(parsed.rest).col),
                             !.rest = LoopBody(parsed.rest).rest,
                             !.iterations = @ + 1]
    /\ UNCHANGED indexFrame

InitIndex ==
    /\ payload = [t \in Tasks |-> MalformedPayload(t)]
    /\ ExecutorInit
    /\ catalog = CHOOSE c \in Catalogs : c.views = <<>> /\ c.indexes = <<IndexT1Pkey, IndexT1Plain>>
    /\ published = NilSchema
    /\ PgIdle
    /\ RunIdle
    /\ reported = <<>>
    /\ InstanceIdle
    /\ indexStmt \in IndexStatements
    /\ parsed = NotParsed
    /\ LicenseIdle

NextIndex ==
    \/ GetIndexColumnExpressions
    \/ TokenizeIteration

SpecIndex == InitIndex /\ [][NextIndex]_vars

(***************************************************************************)
(* StoreLicense applied to subscription patches.                           *)
(***************************************************************************)
licenseFrame == <<payload, execVars, storeVars, history, liveDBs, syncVars, runVars,
                  pgVars, reported, excludedDatabaseList, instancePc, instanceRet,
                  indexStmt, parsed>>

\* store.PatchSetting: the setting takes the patch's value, or the store
\* fails and keeps what it holds
PatchSetting(patch, ok) ==
    /\ setting' = IF ok
                  THEN [Value |-> patch.License, UpdaterID |-> patch.UpdaterID]
                  ELSE setting
    /\ storeLicense' = [ patch   |-> patch,
                         err     |-> IF ok THEN "nil" ELSE "PatchSetting",
                         panic   |-> NoPanic,
                         patched |-> TRUE,
                         calls   |-> storeLicense.calls + 1 ]

\* lines 156-164
writeLicense(patch) == \E ok \in BOOLEAN : PatchSetting(patch, ok)

\* mutant: the license is written without being parsed
StoreLicenseWithoutParsing(patch) ==
    /\ storeLicense.calls < MaxStores
    /\ writeLicense(patch)
    /\ UNCHANGED <<licenseFrame, config>>

\* lines 45-53
StoreLicense(patch) ==
    /\ storeLicense.calls < MaxStores
    /\ IF patch.License # EmptyLicense /\ ~parseLicense(patch.License).ok
       THEN /\ storeLicense' = [ patch   |-> patch,
                                 err     |-> parseLicense(patch.License).err,
                                 panic   |-> parseLicense(patch.License).panic,
                                 patched |-> FALSE,
                                 calls   |-> storeLicense.calls + 1 ]
            /\ UNCHANGED setting
       ELSE writeLicense(patch)
    /\ UNCHANGED <<licenseFrame, config>>

InitLicense ==
    /\ payload = [t \in Tasks |-> MalformedPayload(t)]
    /\ ExecutorInit
    /\ catalog = CHOOSE c \in Catalogs : c.views = <<>> /\ c.indexes = <<IndexT1Pkey, IndexT1Plain>>
    /\ published = NilSchema
    /\ PgIdle
    /\ RunIdle
    /\ reported = <<>>
    /\ InstanceIdle
    /\ indexStmt = <<>>
    /\ parsed = NotParsed
    /\ config \in Configs
    /\ setting \in {NoSetting, OldSetting}
    /\ storeLicense = NoStoreLicense

NextLicense == \E patch \in SubscriptionPatches : StoreLicense(patch)

SpecLicense == InitLicense /\ [][NextLicense]_vars

(***************************************************************************)
(* Properties.                                                             *)
(***************************************************************************)
InTrace(t, op) == \E i \in 1..Len(trace[t]) : trace[t][i] = op

\* the rows of the pair (task instance, payload database name)
RowsForTask(t) == RowsOf(databases, TaskInstance, payload[t].DatabaseName)

Returned(t) == pc[t] = "done"

Succeeded(t) == Returned(t) /\ ret[t].err = NilErr

\* C2: after a RunOnce that returns without error, the row of the pair has the
\* payload's project, whether the executor created the row or found it.
C2_ProjectIsRequested ==
    \A t \in Tasks :
        Succeeded(t) =>
            /\ RowsForTask(t) # {}
            /\ \A r \in RowsForTask(t) : r.projectID = payload[t].ProjectID

\* a successful run that found the row a sync had stored and patched it
C2_Witness ==
    \E t \in Tasks :
        /\ Succeeded(t)
        /\ InTrace(t, "PatchDatabase")
        /\ payload[t].DatabaseName \in syncStored
        /\ \E r \in RowsForTask(t) : r.characterSet = EngineCharacterSet

\* C3 (as claimed): a sync that stores the row during a RunOnce, also between the
\* lookup and the create, never makes RunOnce return the store's conflict error.
C3_RaceNeverAnError ==
    \A t \in Tasks : ret[t].err # ErrUniqueConstraint

\* C4 (as claimed): between the executor's existence check and its own create or
\* patch no other writer's insert for the pair takes effect: while the executor
\* stands between the two calls, the store agrees with what the lookup found.
C4_ReconciliationAtomic ==
    \A t \in Tasks :
        pc[t] = "reconcile" => (DatabaseMissing(database[t]) <=> RowsForTask(t) = {})

\* C5: IsCompleted is false before the first RunOnce of an executor and true once a
\* RunOnce has returned terminated = true, with an error or with a result.
C5_IsCompleted ==
    \A t \in Tasks :
        /\ pc[t] = "pending" => ~IsCompleted(t)
        /\ (Returned(t) /\ ret[t].terminated) => IsCompleted(t)

\* a RunOnce that returned terminated = true with an error
C5_Witness ==
    \E t \in Tasks :
        /\ Returned(t)
        /\ ret[t].terminated
        /\ ret[t].err # NilErr
        /\ IsCompleted(t)

AllSpace(s) == \A i \in 1..Len(s) : IsSpace(s[i])

\* a payload that does not decode, or a statement that is empty or all whitespace
InvalidInput(t) == ~payload[t].wellFormed \/ AllSpace(payload[t].Statement)

\* C6: on invalid input RunOnce returns terminated = true with an error and without
\* side effects: it issues no call (no driver connection, no migration, no store
\* read or write), so the history, the task's database reference and the rows are
\* what the sync passes alone made them.
C6_InvalidInputNoEffect ==
    \A t \in Tasks :
        InvalidInput(t) =>
            /\ trace[t] = <<>>
            /\ ~driverOpen[t]
            /\ history = <<>>
            /\ taskDatabaseID[t] = 0
            /\ \A r \in databases : r.projectID = DefaultProject
            /\ pc[t] \in {"pending", "complete", "done"}
            /\ pc[t] # "pending" =>
                  /\ ret[t].terminated
                  /\ ret[t].err # NilErr
                  /\ ret[t].result = NilResult

\* a RunOnce that returned on a statement of whitespace only
C6_Witness ==
    \E t \in Tasks :
        /\ Returned(t)
        /\ payload[t].wellFormed
        /\ payload[t].Statement # <<>>
        /\ AllSpace(payload[t].Statement)

BaselineRecords(n) ==
    {i \in 1..Len(history) :
        history[i].info.Namespace = n /\ history[i].info.Type = "BASELINE"}

\* C7 (as claimed): whatever RunOnce executions ran for a database, re-runs
\* included, its namespace has at most one baseline migration record, and exactly
\* one after a successful run.
C7_OneBaselinePerNamespace ==
    /\ \A n \in DatabaseNames : Cardinality(BaselineRecords(n)) <= 1
    /\ \A t \in Tasks :
          Succeeded(t) => Cardinality(BaselineRecords(payload[t].DatabaseName)) = 1

\* C8: after a RunOnce that returns without error, the task's database reference
\* is the id of the row of the pair.
C8_TaskReferencesRow ==
    \A t \in Tasks :
        Succeeded(t) =>
            /\ RowsForTask(t) # {}
            /\ \A r \in RowsForTask(t) : taskDatabaseID[t] = r.id

\* a successful run that created the row itself
C8_Witness ==
    \E t \in Tasks :
        /\ Succeeded(t)
        /\ InTrace(t, "CreateDatabase")
        /\ \E r \in RowsForTask(t) : taskDatabaseID[t] = r.id /\ r.characterSet # EngineCharacterSet

\* C9: when the lookup found a row, the executor's write to the store leaves every
\* row in place and changes nothing but the project reference (and the stamp of
\* who updated the row, which no sync discovers).
C9_PatchOnlyProject ==
    [][ \A t \in Tasks :
          ( /\ pc[t] = "reconcile"
            /\ ~DatabaseMissing(database[t])
            /\ pc'[t] # "reconcile" )
          => /\ {r.id : r \in databases'} = {r.id : r \in databases}
             /\ Cardinality(databases') = Cardinality(databases)
             /\ \A r \in databases :
                   [RowByID(databases', r.id) EXCEPT !.projectID = r.projectID,
                                                     !.updaterID = r.updaterID] = r
      ]_vars

\* the executor has patched a row a sync had stored: the project is the payload's,
\* the character set is still the one the sync discovered
C9_Witness ==
    \E t \in Tasks :
        /\ pc[t] = "patchtask"
        /\ InTrace(t, "PatchDatabase")
        /\ database[t].projectID = payload[t].ProjectID
        /\ database[t].characterSet = EngineCharacterSet
        /\ database[t].characterSet # payload[t].CharacterSet
        /\ database[t] \in databases

\* ExecuteMigration was called in this run and failed
MigrationFailed(t) == InTrace(t, "ExecuteMigration") /\ migrationID[t] = 0

StepsAfterMigration ==
    {"GetDatabase", "CreateDatabase", "PatchDatabase", "PatchTask", "GetProjectByID",
     "setDatabaseLabels"}

\* C10: when ExecuteMigration fails RunOnce returns terminated = true with that
\* error and issues none of the later calls: no lookup of the row, no create or
\* patch of it, no task patch, no labels.
C10_MigrationFailureStops ==
    \A t \in Tasks :
        MigrationFailed(t) =>
            /\ pc[t] \in {"close", "complete", "done"}
            /\ ret[t] = [terminated |-> TRUE, result |-> NilResult, err |-> ErrExecuteMigration]
            /\ \A op \in StepsAfterMigration : ~InTrace(t, op)

\* a RunOnce that returned after ExecuteMigration failed
C10_Witness ==
    \E t \in Tasks : Returned(t) /\ MigrationFailed(t) /\ ~driverOpen[t]

(***************************************************************************)
(* Error handling of RunOnce.                                              *)
(***************************************************************************)
\* one of the store calls of steps 4 and 5 returned an error
StoreStepFailed(t) ==
    stepErr[t] \in {"GetDatabase", "CreateDatabase", ErrUniqueConstraint,
                    "PatchDatabase", "PatchTask"}

\* C11: when GetDatabase, CreateDatabase, PatchDatabase or PatchTask fails
\* after the migration succeeded, RunOnce returns terminated=true with a
\* non-nil error and a nil result, and the record ExecuteMigration appended
\* for this run is still in the migration history, unchanged.
C11_LinkFailureIsTerminal ==
    \A t \in Tasks :
        StoreStepFailed(t) =>
            /\ ret[t].terminated
            /\ ret[t].err # NilErr
            /\ ret[t].result = NilResult
            /\ migrationID[t] \in 1..Len(history)
            /\ history[migrationID[t]] =
                   [ id |-> migrationID[t], info |-> migrationInfo[t],
                     statement |-> TrimSpace(payload[t].Statement) ]

C11_Witness ==
    \E t \in Tasks :
        /\ Returned(t)
        /\ stepErr[t] = "PatchTask"
        /\ RowsForTask(t) # {}
        /\ history # <<>>

\* C12: once the migration, the row reconciliation and the task patch have
\* succeeded, a failure of the project lookup or of setting the labels does
\* not fail the run: RunOnce returns the result carrying the migration id.
C12_LabelsBestEffort ==
    \A t \in Tasks :
        (Returned(t) /\ InTrace(t, "GetProjectByID")) =>
            /\ ret[t].err = NilErr
            /\ ret[t].result = ResultOf(t, migrationID[t], migrationInfo[t])

\* C13 (as claimed): whatever the principal lookup and the issue lookup
\* return, a failure or no row, the run is not aborted: ExecuteMigration is
\* invoked with the trimmed creation statement, and the descriptor's Creator
\* (IssueID) is empty exactly when the principal (issue) was not resolved.
C13_LineageTolerated ==
    \A t \in Tasks :
        lineage[t] # NoLineage =>
            /\ pc[t] \notin {"issue", "migrate"} => InTrace(t, "ExecuteMigration")
            /\ (migrationInfo[t].Creator = "") <=> (lineage[t].creator # "found")
            /\ (migrationInfo[t].IssueID = "") <=> (lineage[t].issue # "found")
            /\ migrationID[t] # 0 =>
                   /\ history[migrationID[t]].statement = TrimSpace(payload[t].Statement)
                   /\ history[migrationID[t]].info = migrationInfo[t]

\* the steps of RunOnce that can fail
FailableSteps ==
    {"driver", ErrExecuteMigration, "GetDatabase", "CreateDatabase", ErrUniqueConstraint,
     "PatchDatabase", "PatchTask", "GetProjectByID", "setDatabaseLabels"}
\* errors.Unwrap: only the payload error is built with %w
Unwrap(e) == IF e = "invalid create database payload" THEN "json.Unmarshal" ELSE NilErr
Surfaces(e, cause) == e = cause \/ Unwrap(e) = cause

\* C14: when a step of RunOnce fails, the error RunOnce returns is that
\* step's error, the same value or one that wraps it.
C14_ErrorsVerbatim ==
    \A t \in Tasks :
        stepErr[t] \in FailableSteps => Surfaces(ret[t].err, stepErr[t])

Count(s, op) == Cardinality({i \in 1..Len(s) : s[i] = op})
\* getAdminDatabaseDriver was called and returned a driver
Acquired(t) == InTrace(t, "getAdminDatabaseDriver") /\ stepErr[t] # "driver"

\* C15: a RunOnce acquires at most one driver; Close is called only after a
\* successful acquisition, at most once, and when RunOnce has returned the
\* driver of a successful acquisition has been closed exactly once.
C15_DriverClosedOnce ==
    \A t \in Tasks :
        /\ Count(trace[t], "getAdminDatabaseDriver") <= 1
        /\ Count(trace[t], "Close") <= 1
        /\ InTrace(t, "Close") => Acquired(t)
        /\ driverOpen[t] => Acquired(t)
        /\ Returned(t) =>
               /\ ~driverOpen[t]
               /\ Acquired(t) <=> (Count(trace[t], "Close") = 1)

C15_Witness ==
    \E t \in Tasks :
        /\ Returned(t)
        /\ stepErr[t] = "setDatabaseLabels"
        /\ Count(trace[t], "Close") = 1

\* C16 (as claimed): over the RunOnce, IsCompleted and GetProgress calls on one
\* executor the flag is written once: it holds 0 or 1 throughout, every
\* change of it is the change from 0 to 1 made by that one write, it never
\* goes back to 0, and a reader sees the value the flag holds.
C16_FlagWrittenOnce ==
    [][\A t \in Tasks :
          /\ completed'[t] \in {0, 1}
          /\ flagWrites'[t] \in {flagWrites[t], flagWrites[t] + 1}
          /\ flagWrites'[t] <= 1
          /\ completed[t] = 1 => completed'[t] = 1
          /\ completed'[t] # completed[t] => flagWrites'[t] = flagWrites[t] + 1
          /\ IsCompleted(t)' <=> (flagWrites'[t] = 1)
          /\ seen'[t] # seen[t] => seen'[t] = IsCompleted(t)]_vars

\* C17: once a RunOnce of the task has returned, no later invocation for the
\* task executes the creation statement, creates or patches a database row,
\* or patches the task.
C17_NoRerunAfterTerminal ==
    \A t \in Tasks :
        attempts[t] >= 2 =>
            \A op \in {"ExecuteMigration", "CreateDatabase", "PatchDatabase", "PatchTask"} :
                ~InTrace(t, op)

(***************************************************************************)
(* SyncDBSchema.                                                           *)
(***************************************************************************)
PgInTrace(op) == \E i \in 1..Len(pgTrace) : pgTrace[i] = op
PgReturned == pgPc = "returned"
\* views outside the system schemas whose definition is NULL
NullUserViews == NullViewRows(ViewRows(catalog))
FirstNullUserView == ViewRows(catalog)[MinOf(NullUserViews)]

\* C18: with a view outside the system schemas that has a NULL definition,
\* SyncDBSchema of the database returns a nil snapshot and an error; once the
\* view rows were read the error names the schema and the view; and the
\* caller's published snapshot stays what it was.
C18_NullViewFailsSync ==
    /\ [](PgReturned /\ Found(databaseName) /\ NullUserViews # {} =>
            /\ pgRet.schema = NilSchema
            /\ pgRet.err # NoPgErr
            /\ (PgInTrace("getViews") /\ pgFault # "getViews.Query") =>
                   /\ Names(pgRet.err, FirstNullUserView.schemaName)
                   /\ Names(pgRet.err, FirstNullUserView.name))
    /\ [][(PgReturned /\ Found(databaseName) /\ NullUserViews # {}) =>
              published' = published]_vars

C18_Witness ==
    /\ PgReturned
    /\ pgFault = "empty definition"
    /\ published = PriorSnapshot
    /\ Names(pgRet.err, <<"v2">>)

PgQueries ==
    {"getIndices", "getTableConstraints", "getPgTables", "getViews", "getExtensions", "Commit"}

\* C19: SyncDBSchema returns a snapshot exactly when the index, table, view
\* and extension queries and the commit all succeeded, and then it is the
\* whole snapshot with a nil error; otherwise it returns nil and an error.
C19_AllOrNothing ==
    PgReturned =>
        /\ (pgRet.schema # NilSchema) <=>
               /\ pgFault = "none"
               /\ \A op \in PgQueries : PgInTrace(op)
               /\ txn = "committed"
        /\ (pgRet.schema = NilSchema) <=> (pgRet.err # NoPgErr)
        /\ pgRet.schema # NilSchema => pgRet.schema = schema

C19_Witness ==
    /\ PgReturned
    /\ pgFault = "getExtensions"
    /\ schema # NilSchema
    /\ schema.TableList # <<>>
    /\ pgRet.schema = NilSchema

\* C20: when SyncDBSchema has returned, its transaction is not open; after an
\* error return that followed a successful BeginTx it has been rolled back.
C20_TxnNeverLeftOpen ==
    /\ pgPc \in {"returned", "idle"} => txn # "open"
    /\ (PgReturned /\ txn # "nil" /\ pgRet.err # NoPgErr) => txn = "rolledback"
    /\ (PgReturned /\ PgInTrace("BeginTx") /\ pgFault # "BeginTx") => txn # "nil"

C20_Witness ==
    /\ PgReturned
    /\ pgFault = "getViews.Query"
    /\ txn = "rolledback"
    /\ PgInTrace("Rollback")

(***************************************************************************)
(* Isolation of the catalog reads of one SyncDBSchema call.                *)
(***************************************************************************)
\* the table and the index that one DDL transaction creates together
TogetherTable == Key(TableT2.schemaName, TableT2.name)
TogetherIndex == IndexT2.name

\* C21: the catalog reads of one sync observe one transaction snapshot: a
\* returned snapshot never lists a table without the index that the same DDL
\* transaction created with it.
C21_SingleSnapshot ==
    pgRet.schema # NilSchema =>
        \A i \in 1..Len(pgRet.schema.TableList) :
            pgRet.schema.TableList[i].Name = TogetherTable =>
                \E j \in 1..Len(pgRet.schema.TableList[i].IndexList) :
                    pgRet.schema.TableList[i].IndexList[j].Name = TogetherIndex
(***************************************************************************)
(* The database list of SyncInstance.                                      *)
(***************************************************************************)
\* the denylist: the declared names and the engine's template databases
Denylist == ExcludedDatabases \cup systemDatabases
\* positions of the reported databases whose name is not denylisted
KeptPositions == {i \in 1..Len(reported) : reported[i].name \notin Denylist}
\* the k-th of them in the server's order
KeptPosition(k) == CHOOSE i \in KeptPositions : Cardinality({j \in KeptPositions : j <= i}) = k
InstanceReturned(c) == instancePc[c] = "returned"

\* C22: the database list SyncInstance returns holds exactly the reported
\* databases whose name is not in the denylist, in the server's order, with
\* their character set and collation; names are matched exactly.
C22_DatabaseListFiltered ==
    \A c \in InstanceCalls :
        (InstanceReturned(c) /\ instanceRet[c].meta # NilMeta) =>
            LET out == instanceRet[c].meta.DatabaseList IN
            /\ instanceRet[c].err = NoPgErr
            /\ Len(out) = Cardinality(KeptPositions)
            /\ \A k \in 1..Len(out) :
                   /\ out[k].Name = reported[KeptPosition(k)].name
                   /\ out[k].CharacterSet = reported[KeptPosition(k)].encoding
                   /\ out[k].Collation = reported[KeptPosition(k)].collate

\* a list with a denylisted name, the same name in another case, and a
\* template database has been filtered
C22_Witness ==
    \E c \in InstanceCalls :
        /\ InstanceReturned(c)
        /\ instanceRet[c].meta # NilMeta
        /\ \E i, j, k \in 1..Len(reported) :
               /\ reported[i].name = "bytebase"
               /\ reported[j].name = "Bytebase"
               /\ reported[k].name = "template0"
        /\ Len(instanceRet[c].meta.DatabaseList) = 1
        /\ instanceRet[c].meta.DatabaseList[1].Name = "Bytebase"

(***************************************************************************)
(* The terms getIndexColumnExpressions returns.                            *)
(***************************************************************************)
\* C23: for an index definition whose column list is one double-parenthesized
\* expression, internal comma or not, getIndexColumnExpressions returns exactly
\* one term, the whole expression.
C23_DoubleParenIsOneTerm ==
    \A term \in DoubleParenTerms :
        (parsed.called /\ indexStmt = StatementOf(<<term>>)) =>
            /\ parsed.ok
            /\ parsed.cols = <<term>>

\* ((a, b)) has been parsed
C23_Witness ==
    /\ parsed.called
    /\ indexStmt = StatementOf(<< <<"(", "(", "a", ",", " ", "b", ")", ")">> >>)
    /\ Len(parsed.cols) = 1

\* C24: for a column list that is a comma-separated sequence of plain columns
\* and double-parenthesized expressions, in any number and order,
\* getIndexColumnExpressions returns exactly those terms, one per input term,
\* in order.
C24_TermsPreserved ==
    \A terms \in TermLists :
        (parsed.called /\ indexStmt = StatementOf(terms)) =>
            /\ parsed.ok
            /\ parsed.cols = terms
(***************************************************************************)
(* The executor seen from its poller and from the pipeline that runs it.   *)
(***************************************************************************)
\* api.Progress{}
ZeroProgress == [TotalUnit |-> 0, CompletedUnit |-> 0]
\* a GetProgress call of t has returned in this step
Polled(t) == Len(progress'[t]) = Len(progress[t]) + 1
PollLeavesStateAlone ==
    \A t \in Tasks :
        Polled(t) => UNCHANGED <<payload, execVars, storeVars, history, liveDBs, syncVars,
                                 cancelledAt, effective>>

\* C25: GetProgress returns the zero Progress value in every state, before,
\* during and after RunOnce, and a call changes neither the completion flag
\* nor any other state; the values a poller sees never decrease.
C25_ProgressIsZero ==
    /\ [](\A t \in Tasks : \A i \in 1..Len(progress[t]) :
             /\ progress[t][i] = ZeroProgress
             /\ \A j \in 1..i : progress[t][j].CompletedUnit <= progress[t][i].CompletedUnit)
    /\ [][PollLeavesStateAlone]_vars

\* a poller has called twice on an executor whose run has succeeded
C25_Witness ==
    \E t \in Tasks :
        /\ Len(progress[t]) = 2
        /\ IsCompleted(t)
        /\ pc[t] = "done"
        /\ ret[t].err = NilErr

\* C26: a RunOnce whose context was cancelled while its body was running
\* returns terminated = true with a non-nil error, never success.
C26_CancelledRunFails ==
    \A t \in Tasks :
        (Returned(t) /\ cancelledAt[t] # "none") =>
            /\ ret[t].terminated
            /\ ret[t].err # NilErr

\* C27: the result of a successful run carries the migration id and the
\* effective version the Migration Executor returned for the run, and a
\* detail string that names the created database.
C27_ResultCarriesEffectiveVersion ==
    \A t \in Tasks :
        Succeeded(t) =>
            /\ ret[t].result.MigrationID = migrationID[t]
            /\ ret[t].result.Version = effective[t]
            /\ payload[t].DatabaseName = "db1" =>
                   ret[t].result.Detail = "Created database \"db1\""
            /\ payload[t].DatabaseName = "db2" =>
                   ret[t].result.Detail = "Created database \"db2\""
(***************************************************************************)
(* Order of the steps of a run.                                            *)
(***************************************************************************)
\* the run of t issues the call `op` in this step
Issued(t, op) ==
    /\ Len(trace'[t]) = Len(trace[t]) + 1
    /\ trace'[t][Len(trace'[t])] = op
StepsInOrder ==
    \A t \in Tasks :
        /\ (Issued(t, "CreateDatabase") \/ Issued(t, "PatchDatabase")) =>
               /\ InTrace(t, "ExecuteMigration")
               /\ stepErr[t] = NilErr
               /\ migrationID[t] \in 1..Len(history)
               /\ history[migrationID[t]].info.Database = payload[t].DatabaseName
        /\ Issued(t, "PatchTask") =>
               /\ RowsForTask(t) # {}
               /\ stepErr[t] = NilErr
        /\ taskDatabaseID'[t] # taskDatabaseID[t] =>
               /\ Issued(t, "PatchTask")
               /\ \E r \in RowsForTask(t) : taskDatabaseID'[t] = r.id
        /\ (Issued(t, "GetProjectByID") \/ Issued(t, "setDatabaseLabels")) =>
               /\ InTrace(t, "PatchTask")
               /\ stepErr[t] = NilErr
               /\ \E r \in RowsForTask(t) : taskDatabaseID[t] = r.id

\* C28: the database row is created or patched only after ExecuteMigration has
\* succeeded; the task's database reference is patched only when a row of
\* (instance, name) is in the store, and to that row's id; the label step runs
\* only after the task patch succeeded.
C28_StepsInOrder == [][StepsInOrder]_vars

\* a run that patched a discovered row, linked the task and set the labels
C28_Witness ==
    \E t \in Tasks :
        /\ Succeeded(t)
        /\ InTrace(t, "PatchDatabase")
        /\ InTrace(t, "setDatabaseLabels")
        /\ \E r \in RowsForTask(t) : taskDatabaseID[t] = r.id
(***************************************************************************)
(* The descriptor handed to ExecuteMigration.                              *)
(***************************************************************************)
\* C30: the descriptor RunOnce passes to ExecuteMigration is a forced baseline
\* record of a database creation made from the UI, its namespace and database
\* are the payload's database name and its version the payload's version
\* label, whatever the principal and issue lookups returned; the history
\* record of the run carries that descriptor.
C30_ForcedBaselineDescriptor ==
    \A t \in Tasks :
        InTrace(t, "ExecuteMigration") =>
            /\ migrationInfo[t] # NilInfo
            /\ migrationInfo[t].Type = "BASELINE"
            /\ migrationInfo[t].Force
            /\ migrationInfo[t].CreateDatabase
            /\ migrationInfo[t].Source = "UI"
            /\ migrationInfo[t].Namespace = payload[t].DatabaseName
            /\ migrationInfo[t].Database = payload[t].DatabaseName
            /\ migrationInfo[t].Version = payload[t].SchemaVersion
            /\ migrationID[t] # 0 => history[migrationID[t]].info = migrationInfo[t]

\* ExecuteMigration was called after both lookups had failed
C30_Witness ==
    \E t \in Tasks :
        /\ InTrace(t, "ExecuteMigration")
        /\ lineage[t] = [creator |-> "error", issue |-> "error"]
        /\ migrationID[t] # 0
        /\ migrationInfo[t].Creator = ""
(***************************************************************************)
(* Termination of RunOnce.                                                 *)
(***************************************************************************)
\* RunOnce of t has been entered and has not returned
Started(t) == pc[t] \notin {"pending", "done"}

\* C29 (as claimed): every started RunOnce eventually returns, and whenever it
\* has returned, on whichever exit path, IsCompleted is true.
C29_RunOnceReturnsCompleted ==
    \A t \in Tasks :
        /\ [](Returned(t) => IsCompleted(t))
        /\ Started(t) ~> (Returned(t) /\ IsCompleted(t))

(***************************************************************************)
(* What a table of the snapshot carries.                                   *)
(***************************************************************************)
\* the constraints gathered for the key of a table of the snapshot
GatheredFor(name) == ConstraintsOf(constraints, name)

\* C31: every table of the returned snapshot carries the constraints gathered
\* for its schema+table key, the defining-table name matched without its schema
\* qualifier, as well as the indexes gathered for that key.
C31_TablesCarryConstraints ==
    pgRet.schema # NilSchema =>
        \A i \in 1..Len(pgRet.schema.TableList) :
            LET tbl == pgRet.schema.TableList[i] IN
            /\ tbl.IndexList = IndexListOf(indices, tbl.Name)
            /\ GatheredFor(tbl.Name) # <<>> =>
                   /\ "ConstraintList" \in DOMAIN tbl
                   /\ Len(tbl.ConstraintList) = Len(GatheredFor(tbl.Name))

(***************************************************************************)
(* Partial indexes.                                                        *)
(***************************************************************************)
\* lists of plain columns
PlainLists == {terms \in TermLists : \A i \in 1..Len(terms) : terms[i] \in PlainTerms}
\* the term holds an atom of the WHERE predicate
HoldsPredicate(col) ==
    \E i \in 1..Len(col) : col[i] \in {"WHERE", "c", ">", "0"}

\* C32: for a partial index definition, (a, b) WHERE (c > 0),
\* getIndexColumnExpressions returns only the terms of the column list, and
\* no term holds any part of the WHERE predicate.
C32_PartialIndexTerms ==
    \A terms \in PlainLists :
        (parsed.called /\ indexStmt = PartialStatementOf(terms)) =>
            /\ parsed.ok
            /\ parsed.cols = terms
            /\ \A i \in 1..Len(parsed.cols) : ~HoldsPredicate(parsed.cols[i])

(***************************************************************************)
(* The values RunOnce returns.                                             *)
(***************************************************************************)
\* RunOnce of t has executed a return statement
ReturnTaken(t) == pc[t] \in {"close", "complete", "done"} /\ ~Panicking(t)

\* C33: on every exit path RunOnce returns terminated = true; it never asks
\* the scheduler for a later re-invocation.
C33_AlwaysTerminated ==
    \A t \in Tasks :
        /\ ReturnTaken(t) => ret[t].terminated
        /\ ~ReturnTaken(t) => ret[t] = NoReturn

\* a run that returned because the driver could not be obtained
C33_Witness ==
    \E t \in Tasks :
        /\ Returned(t)
        /\ stepErr[t] = "driver"
        /\ ret[t].terminated

\* C34: RunOnce returns a non-nil result exactly when it returns a nil error.
C34_ResultIffNoError ==
    \A t \in Tasks :
        ReturnTaken(t) => ((ret[t].result # NilResult) <=> (ret[t].err = NilErr))

\* a run has returned a result, and an earlier run of the task an error
C34_Witness ==
    \E t \in Tasks :
        /\ Succeeded(t)
        /\ ret[t].result # NilResult
        /\ attempts[t] = 2

(***************************************************************************)
(* What a poller of IsCompleted may conclude.                              *)
(***************************************************************************)
\* the calls of a run that write to the store
StoreWrites == {"CreateDatabase", "PatchDatabase", "PatchTask", "setDatabaseLabels"}
WritesAfterFlag ==
    \A t \in Tasks :
        (IsCompleted(t) /\ pc'[t] # "pending") =>
            /\ trace'[t] = trace[t]
            /\ databases' = databases
            /\ taskDatabaseID'[t] = taskDatabaseID[t]

\* C35: when a poller has seen IsCompleted() = true the run is finished:
\* RunOnce is over (it has returned, or left by a panic), its driver connection
\* is closed, and the run issues no store write afterwards.
C35_CompletedMeansFinished ==
    /\ [](\A t \in Tasks :
             (seen[t] \/ IsCompleted(t)) =>
                 /\ pc[t] = Left(t)
                 /\ ~driverOpen[t]
                 /\ Acquired(t) => InTrace(t, "Close"))
    /\ [][WritesAfterFlag]_vars

\* a poller has seen the flag of a run that wrote the row, the task and the labels
C35_Witness ==
    \E t \in Tasks :
        /\ seen[t]
        /\ InTrace(t, "CreateDatabase")
        /\ InTrace(t, "PatchTask")
        /\ InTrace(t, "setDatabaseLabels")
        /\ InTrace(t, "Close")

(***************************************************************************)
(* A second, sequential run for the same (instance, name).                 *)
(***************************************************************************)
RowIDs(t) == {r.id : r \in RowsForTask(t)}
SecondRunStep ==
    \A t \in Tasks :
        \* a row of the pair keeps its id
        /\ RowIDs(t) \subseteq {r.id : r \in RowsOf(databases', TaskInstance, payload[t].DatabaseName)}
        \* the lookup of a run finds the row an earlier run left
        /\ (Issued(t, "GetDatabase") /\ pc'[t] = "reconcile" /\ RowsForTask(t) # {}) =>
               database'[t].id \in RowIDs(t)
        /\ Issued(t, "CreateDatabase") => RowsForTask(t) = {}
        /\ Issued(t, "PatchDatabase") => database[t].id \in RowIDs(t)

\* C36: a second run for the same (instance, name), made after a run that
\* created the row, creates no second row: it finds the row, patches its
\* project, and sets the task's database reference to the same row id.
C36_SecondRunReusesRow ==
    /\ [](\A t \in Tasks :
             /\ Cardinality(RowsForTask(t)) <= 1
             /\ (attempts[t] >= 2 /\ Succeeded(t) /\ InTrace(t, "PatchDatabase")) =>
                    \A r \in RowsForTask(t) :
                        /\ r.projectID = payload[t].ProjectID
                        /\ taskDatabaseID[t] = r.id)
    /\ [][SecondRunStep]_vars

\* the second run has succeeded on the row the first run created
C36_Witness ==
    \E t \in Tasks :
        /\ attempts[t] = 2
        /\ Succeeded(t)
        /\ InTrace(t, "PatchDatabase")
        /\ ~InTrace(t, "CreateDatabase")
        /\ \E r \in RowsForTask(t) : taskDatabaseID[t] = r.id /\ r.characterSet # EngineCharacterSet

(***************************************************************************)
(* Concurrent SyncInstance calls and the package-level map.                *)
(***************************************************************************)
\* C37: concurrent SyncInstance calls never access the package-level map
\* without synchronization: no two calls write it at the same time and no call
\* reads it while another writes it.
C37_NoUnsynchronizedMapAccess ==
    \A c \in InstanceCalls : ~Racing(c)

(***************************************************************************)
(* Termination of getIndexColumnExpressions.                               *)
(***************************************************************************)
\* an iteration of the loop ends the call or shortens the text still to split
IterationShortens ==
    (parsed.looping /\ parsed'.looping) =>
        /\ Len(parsed'.rest) < Len(parsed.rest)
        /\ parsed'.iterations = parsed.iterations + 1

\* C38: every iteration of the tokenizing loop returns an error or removes at
\* least one character of the remaining column text, so the loop makes at most
\* as many iterations as the column text is long; the call then returns what
\* the function computes.
C38_TokenizingTerminates ==
    /\ [](parsed.looping =>
             parsed.iterations + Len(parsed.rest) <= Len(ColumnStmt(indexStmt)))
    /\ [](parsed.called =>
             /\ parsed.ok = getIndexColumnExpressions(indexStmt).ok
             /\ parsed.cols = getIndexColumnExpressions(indexStmt).cols
             /\ ColumnStmtMatches(indexStmt) =>
                    parsed.iterations <= Len(ColumnStmt(indexStmt)))
    /\ [][IterationShortens]_vars

\* the loop has made three iterations and returned
C38_Witness ==
    /\ parsed.called
    /\ parsed.ok
    /\ parsed.iterations = 3


(***************************************************************************)
(* SyncDBSchema for a database the server does not list.                   *)
(***************************************************************************)
\* the call in progress is for a name getDatabases did not return
Unlisted ==
    /\ pgPc # "idle"
    /\ ~Found(databaseName)
    /\ pgFault # "getDatabases"

\* C39: SyncDBSchema for a name the server's database list does not hold
\* returns a NotFound error and a nil snapshot, having opened no connection to
\* that database and begun no transaction.
C39_UnlistedDatabaseNotFound ==
    Unlisted =>
        /\ pgPc = "returned"
        /\ pgRet.schema = NilSchema
        /\ pgRet.err = PgErr("NotFound: database not found", << <<databaseName>> >>, <<>>)
        /\ pgTrace = <<"getDatabases">>
        /\ txn = "nil"

\* the call for the dropped database has returned
C39_Witness ==
    /\ Unlisted
    /\ databaseName = "dropped"
    /\ pgPc = "returned"
    /\ pgRet.err # NoPgErr


(***************************************************************************)
(* StoreLicense and the stored license.                                    *)
(***************************************************************************)
\* a StoreLicense call has been made by this step
StoreLicenseCalled == storeLicense'.calls = storeLicense.calls + 1

\* the patch carries a license that is not empty and that parseLicense returns
\* an error for
Rejected(patch) ==
    /\ patch.License # EmptyLicense
    /\ parseLicense(patch.License).err # "nil"

\* C40: a StoreLicense call whose patch carries a non-empty license that fails
\* parsing or validation returns that error, issues no write of the license
\* setting and leaves the setting as it was; a write is issued only for a
\* license that parsed as valid or for the empty license, so a call that
\* parseLicense ends by a panic writes nothing either.
C40_RejectedLicenseNotStored ==
    [][StoreLicenseCalled =>
         /\ Rejected(storeLicense'.patch) =>
                /\ storeLicense'.err = parseLicense(storeLicense'.patch.License).err
                /\ storeLicense'.panic = NoPanic
                /\ ~storeLicense'.patched
                /\ setting' = setting
         /\ storeLicense'.patched =>
                \/ storeLicense'.patch.License = EmptyLicense
                \/ parseLicense(storeLicense'.patch.License).ok
         /\ setting' # setting =>
                /\ storeLicense'.patched
                /\ storeLicense'.err = "nil"
                /\ storeLicense'.panic = NoPanic
                /\ setting'.Value = storeLicense'.patch.License]_vars

\* a license is stored, and a call with a token of a wrong issuer has returned
\* its error
C40_Witness ==
    /\ setting = OldSetting
    /\ storeLicense.calls > 0
    /\ storeLicense.patch.License \in Tokens
    /\ storeLicense.err = "Invalid: iss is not valid"
    /\ ~storeLicense.patched

====
